---------------------------- MODULE Spec2Model ----------------------------
(***************************************************************************)
(* A model of be-good (src/src/index.ts, the current API at lines          *)
(* 116-320): decoders built by be, fallback/or, beObject, beObjectOf,      *)
(* beArrayOf and beDictOf, applied to JavaScript values; and of the        *)
(* functions decode and decodeArray of the earlier API                     *)
(* (src/unnamed/part_007).                                                 *)
(*                                                                         *)
(* JavaScript values are records of one shape, so that any two of them can *)
(* be compared.  Arrays and objects carry a heap reference `ref`: two      *)
(* containers are the same JavaScript object iff their refs are equal, and *)
(* a container built by a decoder takes a reference no input holds.        *)
(*                                                                         *)
(* The value universe is the one the repository's tests and README         *)
(* exercise: null, undefined, booleans, integers, strings, functions,      *)
(* arrays (possibly with extra named properties) and plain objects whose   *)
(* keys are ordinary property names.                                       *)
(***************************************************************************)
EXTENDS Integers, Sequences, FiniteSets, TLC

VARIABLES
    pc,       \* "init": nothing called yet; "done": one decoder call finished;
              \* "redecoded", "again": the decoder was called a second time
    input,    \* the value handed to the decoder
    built,    \* the decoder the call built and ran (NoDecoder before the call)
    outcome,  \* what the call did: a returned value or a thrown error
    calls,    \* the sub-decoder invocations the call made, in order
    next,     \* the next free heap reference after the call
    writes,   \* the property writes the call did, in order
    input2,   \* the value handed to the decoder in its second call
    outcome2, \* what the second call did, and the machine state it left
    called,   \* the export the decoder was built with ("" before the call)
    logged    \* the errors the caller's logger was called with, in order

vars ==
    <<pc, input, built, outcome, calls, next, writes, input2, outcome2,
      called, logged>>

----------------------------------------------------------------------------
(* Bounds of the model *)

\* longest input array
MaxLen == 3
\* most own keys of an input object
MaxKeys == 2
\* largest minSize option tried
MaxMinSize == 3
\* largest property name that is an array index ("0", "1", ...)
MaxIndexKey == 3

----------------------------------------------------------------------------
(* JavaScript values *)

Val(kind, n, s, ref, els, keys, vals) ==
    [kind |-> kind, n |-> n, s |-> s, ref |-> ref,
     els |-> els, keys |-> keys, vals |-> vals]

Null      == Val("null", 0, "", 0, <<>>, <<>>, <<>>)
Undefined == Val("undefined", 0, "", 0, <<>>, <<>>, <<>>)
Bool(b)   == Val("boolean", IF b THEN 1 ELSE 0, "", 0, <<>>, <<>>, <<>>)
Num(n)    == Val("number", n, "", 0, <<>>, <<>>, <<>>)
Str(s)    == Val("string", 0, s, 0, <<>>, <<>>, <<>>)
\* a function value such as `() => {}`
Fn        == Val("function", 0, "() => {}", 0, <<>>, <<>>, <<>>)
\* an array: its elements, and any extra named properties (keys/vals)
ArrX(ref, els, keys, vals) == Val("array", 0, "", ref, els, keys, vals)
Arr(ref, els) == ArrX(ref, els, <<>>, <<>>)
\* a plain object: own enumerable keys in Object.keys order, and their values
Obj(ref, keys, vals) == Val("object", 0, "", ref, <<>>, keys, vals)

\* typeof value
TypeOf(v) ==
    CASE v.kind = "null"      -> "object"
      [] v.kind = "array"     -> "object"
      [] v.kind = "object"    -> "object"
      [] OTHER                -> v.kind

\* Array.isArray(value)
IsArray(v) == v.kind = "array"

\* value[key] for a string key: the own property, or undefined when absent.
\* Property access on null/undefined is not used by the library (the object
\* guard runs first).
RECURSIVE LookupFrom(_, _, _, _)
LookupFrom(keys, vals, key, i) ==
    IF i > Len(keys) THEN Undefined
    ELSE IF keys[i] = key THEN vals[i]
    ELSE LookupFrom(keys, vals, key, i + 1)

GetProp(v, key) == LookupFrom(v.keys, v.vals, key, 1)

HasKey(v, key) == \E i \in 1..Len(v.keys) : v.keys[i] = key

----------------------------------------------------------------------------
(* String conversion, as `lq + value + rq` does it *)

Digit(d) ==
    CASE d = 0 -> "0" [] d = 1 -> "1" [] d = 2 -> "2" [] d = 3 -> "3"
      [] d = 4 -> "4" [] d = 5 -> "5" [] d = 6 -> "6" [] d = 7 -> "7"
      [] d = 8 -> "8" [] d = 9 -> "9"

RECURSIVE NatToString(_)
NatToString(n) ==
    IF n < 10 THEN Digit(n) ELSE NatToString(n \div 10) \o Digit(n % 10)

NumToString(n) == IF n < 0 THEN "-" \o NatToString(0 - n) ELSE NatToString(n)

RECURSIVE StringOf(_)
RECURSIVE JoinFrom(_, _)
\* Array.prototype.join(","): null and undefined elements print as ""
JoinFrom(els, i) ==
    IF i > Len(els) THEN ""
    ELSE (IF i > 1 THEN "," ELSE "")
         \o (IF els[i].kind \in {"null", "undefined"} THEN ""
             ELSE StringOf(els[i]))
         \o JoinFrom(els, i + 1)

StringOf(v) ==
    CASE v.kind = "null"      -> "null"
      [] v.kind = "undefined" -> "undefined"
      [] v.kind = "boolean"   -> IF v.n = 1 THEN "true" ELSE "false"
      [] v.kind = "number"    -> NumToString(v.n)
      [] v.kind = "string"    -> v.s
      [] v.kind = "function"  -> v.s
      [] v.kind = "array"     -> JoinFrom(v.els, 1)
      [] v.kind = "object"    -> "[object Object]"


\* the quotes printValueInfo puts around a string (U+201C and U+201D in the
\* source, written here in ASCII)
LQuote == "\""
RQuote == "\""

\* printValueInfo with the quotes put around every value, whatever its type
printValueInfo_quotesAll(value) ==
    LQuote \o StringOf(value) \o RQuote \o " (" \o TypeOf(value) \o ")"

\* printValueInfo(value)
printValueInfo(value) ==
    LET lq == IF TypeOf(value) = "string" THEN LQuote ELSE ""
        rq == IF TypeOf(value) = "string" THEN RQuote ELSE ""
    IN  lq \o StringOf(value) \o rq \o " (" \o TypeOf(value) \o ")"

----------------------------------------------------------------------------
(* Predicates *)

\* isObject without its null test: typeof null is 'object'
isObject_typeofOnly(value) ==
    /\ TypeOf(value) = "object"
    /\ ~IsArray(value)

\* isObject without its array test, as an earlier revision had it
isObject_allowsArrays(value) ==
    /\ value.kind \notin {"null", "undefined"}
    /\ TypeOf(value) = "object"


\* isObject(value), the library's object guard
isObject(value) ==
    /\ value.kind \notin {"null", "undefined"}
    /\ TypeOf(value) = "object"
    /\ ~IsArray(value)

\* The type guards callers hand to `be`: lodash's isString, isNumber and
\* isBoolean, the tests' isEven, and the library's own isObject.
ApplyPredicate(predicate, value) ==
    CASE predicate = "isString"  -> value.kind = "string"
      [] predicate = "isNumber"  -> value.kind = "number"
      [] predicate = "isBoolean" -> value.kind = "boolean"
      [] predicate = "isEven"    -> value.kind = "number" /\ value.n % 2 = 0
      [] predicate = "isObject"  -> isObject(value)

----------------------------------------------------------------------------
(* Outcomes of a decoder call.  `m` is the machine state a call threads     *)
(* through: the next free heap reference, the log of sub-decoder calls and  *)
(* the log of the property writes done.                                     *)

Machine(nxt, log, ws) == [next |-> nxt, calls |-> log, writes |-> ws]

\* the assignment `obj[prop] = ...` (or a push at index prop) on the
\* container at heap reference ref, logged
Write(ref, prop, m) ==
    Machine(m.next, m.calls, Append(m.writes, [ref |-> ref, prop |-> prop]))

\* `return v`
Return(v, m) ==
    [ok |-> TRUE, val |-> v, errName |-> "", msg |-> "",
     next |-> m.next, calls |-> m.calls, writes |-> m.writes]

\* `throw errName(msg)`
Throw(errName, msg, m) ==
    [ok |-> FALSE, val |-> Undefined, errName |-> errName, msg |-> msg,
     next |-> m.next, calls |-> m.calls, writes |-> m.writes]

\* the machine state an outcome leaves behind
After(r) == Machine(r.next, r.calls, r.writes)

----------------------------------------------------------------------------
(* Decoders.  A decoder is a closure; the model keeps what it closes over.  *)
(* The factories build the closures, and Run applies one to an input.       *)

\* be(predicate): the closure `decoder` over the predicate
be(predicate) == [kind |-> "be", pred |-> predicate]

\* fallback(fallbackVal)(dec): the closure `decoratedDecoder` over the
\* fallback value and the wrapped decoder (the two applications of the
\* curried source taken together)
fallback(fallbackVal, dec) ==
    [kind |-> "fallback", fb |-> fallbackVal, inner |-> dec]

\* an alias that wraps the decoder but puts undefined for the fallback
\* value
or_optional(fallbackVal, dec) ==
    [kind |-> "fallback", fb |-> Undefined, inner |-> dec]

\* or = fallback
or(fallbackVal, dec) == fallback(fallbackVal, dec)

\* beObject = be(isObject)
beObject == be("isObject")

\* beObjectOf(fieldDecoders): fieldDecoders is the sequence of
\* [key, dec] pairs as the object literal declares them
beObjectOf(fieldDecoders) == [kind |-> "beObjectOf", fields |-> fieldDecoders]

\* An options argument of beArrayOf/beDictOf.  `given` is FALSE when the
\* argument is omitted; a field that is absent (undefined) has its has-flag
\* FALSE.
Options(given, hasInvalidate, invalidate, hasMinSize, minSize) ==
    [given |-> given, hasInvalidate |-> hasInvalidate,
     invalidate |-> invalidate, hasMinSize |-> hasMinSize,
     minSize |-> minSize]

NoOptions == Options(FALSE, FALSE, "", FALSE, 0)

\* the parameter defaults `{ invalidate = 'single', minSize = 0 } = {}`
InvalidateOf(options) ==
    IF options.given /\ options.hasInvalidate THEN options.invalidate
    ELSE "single"

\* the minSize default taken as 1: an empty result is too small
MinSizeOf_defaultsToOne(options) ==
    IF options.given /\ options.hasMinSize THEN options.minSize ELSE 1

MinSizeOf(options) ==
    IF options.given /\ options.hasMinSize THEN options.minSize ELSE 0

\* beDictOf(elDecoder, options): the closure `dictDecoder`
beDictOf(elDecoder, options) ==
    [kind |-> "beDictOf", el |-> elDecoder,
     invalidate |-> InvalidateOf(options), minSize |-> MinSizeOf(options)]

\* beArrayOf(elDecoder, options): the closure `arrayDecoder`
beArrayOf(elDecoder, options) ==
    [kind |-> "beArrayOf", el |-> elDecoder,
     invalidate |-> InvalidateOf(options), minSize |-> MinSizeOf(options)]

\* Decoders callers write themselves: `el => el` of the tests, and a decoder
\* that raises an error of its own (errName is not TypeError) on every input
identityDecoder == [kind |-> "identity"]
raisingDecoder(errName) == [kind |-> "raise", errName |-> errName]

\* what is in `built` before any call
NoDecoder == [kind |-> "none"]

----------------------------------------------------------------------------
(* Running a decoder *)

\* whether a property name is an array index, and which
IsIndexKey(key) == \E n \in 0..MaxIndexKey : key = NatToString(n)

\* the [key, dec] pairs whose key is an index from n on, by ascending index
RECURSIVE IndexKeyed(_, _)
IndexKeyed(fields, n) ==
    IF n > MaxIndexKey THEN <<>>
    ELSE SelectSeq(fields, LAMBDA f : f.key = NatToString(n))
         \o IndexKeyed(fields, n + 1)

\* the field decoders dropped from Object.keys: index names are left out
ObjectKeys_dropsIndexKeys(fields) ==
    SelectSeq(fields, LAMBDA f : ~IsIndexKey(f.key))

\* Object.keys(fieldDecoders), as the pairs it visits: the index names
\* first, in ascending order, then the other names as they were declared
ObjectKeys(fields) ==
    IndexKeyed(fields, 0)
    \o SelectSeq(fields, LAMBDA f : ~IsIndexKey(f.key))

RECURSIVE Run(_, _, _)

\* a call of a sub-decoder (an element or field decoder): logged, then run
Invoke(dec, x, m) ==
    Run(dec, x,
        Machine(m.next, Append(m.calls, [d |-> dec, x |-> x]), m.writes))

\* `result[key] = v` on a plain object
SetProp(obj, key, v) ==
    IF HasKey(obj, key)
    THEN [obj EXCEPT !.vals =
            [i \in 1..Len(obj.vals) |->
                IF obj.keys[i] = key THEN v ELSE obj.vals[i]]]
    ELSE [obj EXCEPT !.keys = Append(@, key), !.vals = Append(@, v)]

\* the closure of be with its test negated: throws on what the predicate
\* accepts
decoder_negatedTest(d, input_, m) ==
    IF ApplyPredicate(d.pred, input_)
    THEN Throw("TypeError", "assertion failed on " \o printValueInfo(input_), m)
    ELSE Return(input_, m)

\* the closure of be building its TypeError without throwing it: every
\* input is returned
decoder_forgetsThrow(d, input_, m) ==
    Return(input_, m)


\* the closure be returns
decoder(d, input_, m) ==
    IF ~ApplyPredicate(d.pred, input_)
    THEN Throw("TypeError", "assertion failed on " \o printValueInfo(input_), m)
    ELSE Return(input_, m)

\* decoratedDecoder without the `return` in its try block: the wrapped
\* decoder's result is dropped
decoratedDecoder_dropsResult(d, input_, m) ==
    LET r == Run(d.inner, input_, m)
    IN  IF r.ok THEN Return(Undefined, After(r)) ELSE Return(d.fb, After(r))

\* decoratedDecoder catching the library's TypeError only
decoratedDecoder_typeErrorOnly(d, input_, m) ==
    LET r == Run(d.inner, input_, m)
    IN  IF r.ok \/ r.errName # "TypeError" THEN r ELSE Return(d.fb, After(r))

\* decoratedDecoder without its try/catch: the wrapped decoder's throw
\* leaves the function
decoratedDecoder_noCatch(d, input_, m) ==
    Run(d.inner, input_, m)

\* decoratedDecoder returning null, not the fallback value, from its catch
\* block
decoratedDecoder_returnsNull(d, input_, m) ==
    LET r == Run(d.inner, input_, m)
    IN  IF r.ok THEN r ELSE Return(Null, After(r))


\* the closure fallback's decorator returns: try { decoder(input) } catch
decoratedDecoder(d, input_, m) ==
    LET r == Run(d.inner, input_, m)
    IN  IF r.ok THEN r ELSE Return(d.fb, After(r))

\* objectLoop swallowing a field decoder's throw: the field is left out and
\* the loop goes on
RECURSIVE objectLoop_skipsFailedField(_, _, _, _, _)
objectLoop_skipsFailedField(d, input_, i, result, m) ==
    IF i > Len(d.fields) THEN Return(result, m)
    ELSE LET key == d.fields[i].key
             r   == Invoke(d.fields[i].dec, GetProp(input_, key), m)
         IN  IF r.ok
             THEN objectLoop_skipsFailedField(d, input_, i + 1,
                                              SetProp(result, key, r.val),
                                              Write(result.ref, key,
                                                    After(r)))
             ELSE objectLoop_skipsFailedField(d, input_, i + 1, result,
                                              After(r))

\* objectLoop going through the declared keys from the last to the first
RECURSIVE objectLoop_fromLastKey(_, _, _, _, _)
objectLoop_fromLastKey(d, input_, i, result, m) ==
    IF i > Len(d.fields) THEN Return(result, m)
    ELSE LET key == d.fields[Len(d.fields) + 1 - i].key
             r   == Invoke(d.fields[Len(d.fields) + 1 - i].dec,
                           GetProp(input_, key), m)
         IN  IF r.ok
             THEN objectLoop_fromLastKey(d, input_, i + 1,
                                         SetProp(result, key, r.val),
                                         Write(result.ref, key, After(r)))
             ELSE r


\* the forEach of objectDecoder from the i-th key on; a field
\* decoder's throw leaves the loop and the function
RECURSIVE objectLoop(_, _, _, _, _)
objectLoop(d, input_, i, result, m) ==
    IF i > Len(d.fields) THEN Return(result, m)
    ELSE LET key == d.fields[i].key
             r   == Invoke(d.fields[i].dec, GetProp(input_, key), m)
         IN  IF r.ok
             THEN objectLoop(d, input_, i + 1, SetProp(result, key, r.val),
                             Write(result.ref, key, After(r)))
             ELSE r

\* objectDecoder writing the decoded fields into the input object instead
\* of a new one
objectDecoder_writesIntoInput(d, input_, m) ==
    IF ~isObject(input_) THEN Throw("TypeError", "Not an object", m)
    ELSE objectLoop([d EXCEPT !.fields = ObjectKeys(@)], input_, 1, input_,
                    m)

\* objectDecoder catching what a field decoder throws and returning
\* undefined for the whole object
objectDecoder_absorbsFailure(d, input_, m) ==
    IF ~isObject(input_) THEN Throw("TypeError", "Not an object", m)
    ELSE LET r == objectLoop([d EXCEPT !.fields = ObjectKeys(@)], input_, 1,
                             Obj(m.next, <<>>, <<>>),
                             Machine(m.next + 1, m.calls, m.writes))
         IN  IF r.ok THEN r ELSE Return(Undefined, After(r))


\* the closure beObjectOf returns
objectDecoder(d, input_, m) ==
    IF ~isObject(input_) THEN Throw("TypeError", "Not an object", m)
    ELSE objectLoop([d EXCEPT !.fields = ObjectKeys(@)], input_, 1,
                    Obj(m.next, <<>>, <<>>),
                    Machine(m.next + 1, m.calls, m.writes))

\* dictLoop keeping the raw value of an element its decoder rejected (policy
\* 'single')
RECURSIVE dictLoop_keepsRejected(_, _, _, _, _)
dictLoop_keepsRejected(d, input_, i, acc, m) ==
    IF i > Len(input_.keys) THEN Return(acc, m)
    ELSE LET key == input_.keys[i]
             r   == Invoke(d.el, GetProp(input_, key), m)
         IN  IF r.ok
             THEN dictLoop_keepsRejected(d, input_, i + 1,
                           [result |-> SetProp(acc.result, key, r.val),
                            length |-> acc.length + 1],
                           Write(acc.result.ref, key, After(r)))
             ELSE IF d.invalidate = "all"
             THEN Throw("TypeError", "invalid element", After(r))
             ELSE dictLoop_keepsRejected(d, input_, i + 1,
                           [result |-> SetProp(acc.result, key,
                                               GetProp(input_, key)),
                            length |-> acc.length],
                           Write(acc.result.ref, key, After(r)))

\* dictLoop with `length++` outside the try block: the rejected elements
\* are counted too
RECURSIVE dictLoop_countsRejected(_, _, _, _, _)
dictLoop_countsRejected(d, input_, i, acc, m) ==
    IF i > Len(input_.keys) THEN Return(acc, m)
    ELSE LET key == input_.keys[i]
             r   == Invoke(d.el, GetProp(input_, key), m)
         IN  IF r.ok
             THEN dictLoop_countsRejected(d, input_, i + 1,
                           [result |-> SetProp(acc.result, key, r.val),
                            length |-> acc.length + 1],
                           Write(acc.result.ref, key, After(r)))
             ELSE IF d.invalidate = "all"
             THEN Throw("TypeError", "invalid element", After(r))
             ELSE dictLoop_countsRejected(d, input_, i + 1,
                           [acc EXCEPT !.length = @ + 1], After(r))


\* dictLoop rethrowing, under 'all', the error the element decoder threw
RECURSIVE dictLoop_rethrows(_, _, _, _, _)
dictLoop_rethrows(d, input_, i, acc, m) ==
    IF i > Len(input_.keys) THEN Return(acc, m)
    ELSE LET key == input_.keys[i]
             r   == Invoke(d.el, GetProp(input_, key), m)
         IN  IF r.ok
             THEN dictLoop_rethrows(d, input_, i + 1,
                           [result |-> SetProp(acc.result, key, r.val),
                            length |-> acc.length + 1],
                           Write(acc.result.ref, key, After(r)))
             ELSE IF d.invalidate = "all"
             THEN r
             ELSE dictLoop_rethrows(d, input_, i + 1, acc, After(r))


\* the forEach of dictDecoder from the i-th own key on; acc holds `result`
\* and `length`
RECURSIVE dictLoop(_, _, _, _, _)
dictLoop(d, input_, i, acc, m) ==
    IF i > Len(input_.keys) THEN Return(acc, m)
    ELSE LET key == input_.keys[i]
             r   == Invoke(d.el, GetProp(input_, key), m)
         IN  IF r.ok
             THEN dictLoop(d, input_, i + 1,
                           [result |-> SetProp(acc.result, key, r.val),
                            length |-> acc.length + 1],
                           Write(acc.result.ref, key, After(r)))
             ELSE IF d.invalidate = "all"
             THEN Throw("TypeError", "invalid element", After(r))
             ELSE dictLoop(d, input_, i + 1, acc, After(r))

\* dictDecoder with `length` declared outside the closure: it is not reset
\* between calls and goes on from the writes done before
dictDecoder_lengthOutlivesCall(d, input_, m) ==
    IF ~isObject(input_) THEN Throw("TypeError", "Not an object", m)
    ELSE LET r == dictLoop(d, input_, 1,
                           [result |-> Obj(m.next, <<>>, <<>>),
                            length |-> Len(m.writes)],
                           Machine(m.next + 1, m.calls, m.writes))
         IN  IF ~r.ok THEN r
             ELSE IF r.val.length < d.minSize
             THEN Throw("TypeError",
                        "Dic elements count less than "
                            \o NumToString(d.minSize),
                        After(r))
             ELSE Return(r.val.result, After(r))


\* dictDecoder without its size check
dictDecoder_noSizeCheck(d, input_, m) ==
    IF ~isObject(input_) THEN Throw("TypeError", "Not an object", m)
    ELSE LET r == dictLoop(d, input_, 1,
                           [result |-> Obj(m.next, <<>>, <<>>), length |-> 0],
                           Machine(m.next + 1, m.calls, m.writes))
         IN  IF ~r.ok THEN r
             ELSE Return(r.val.result, After(r))


\* the closure beDictOf returns
dictDecoder(d, input_, m) ==
    IF ~isObject(input_) THEN Throw("TypeError", "Not an object", m)
    ELSE LET r == dictLoop(d, input_, 1,
                           [result |-> Obj(m.next, <<>>, <<>>), length |-> 0],
                           Machine(m.next + 1, m.calls, m.writes))
         IN  IF ~r.ok THEN r
             ELSE IF r.val.length < d.minSize
             THEN Throw("TypeError",
                        "Dic elements count less than "
                            \o NumToString(d.minSize),
                        After(r))
             ELSE Return(r.val.result, After(r))

\* arrayLoop with unshift for push: the decoded elements come out reversed
RECURSIVE arrayLoop_unshifts(_, _, _, _, _)
arrayLoop_unshifts(d, input_, i, result, m) ==
    IF i > Len(input_.els) THEN Return(result, m)
    ELSE LET r == Invoke(d.el, input_.els[i], m)
         IN  IF r.ok
             THEN arrayLoop_unshifts(d, input_, i + 1,
                            [result EXCEPT !.els = <<r.val>> \o @],
                            Write(result.ref, NatToString(Len(result.els)),
                                  After(r)))
             ELSE IF d.invalidate = "all"
             THEN Throw("TypeError", "invalid element", After(r))
             ELSE arrayLoop_unshifts(d, input_, i + 1, result, After(r))

\* arrayLoop with `break` for `throw` under 'all': the elements decoded so
\* far are returned
RECURSIVE arrayLoop_breaksOnInvalid(_, _, _, _, _)
arrayLoop_breaksOnInvalid(d, input_, i, result, m) ==
    IF i > Len(input_.els) THEN Return(result, m)
    ELSE LET r == Invoke(d.el, input_.els[i], m)
         IN  IF r.ok
             THEN arrayLoop_breaksOnInvalid(d, input_, i + 1,
                            [result EXCEPT !.els = Append(@, r.val)],
                            Write(result.ref, NatToString(Len(result.els)),
                                  After(r)))
             ELSE IF d.invalidate = "all"
             THEN Return(result, After(r))
             ELSE arrayLoop_breaksOnInvalid(d, input_, i + 1, result,
                                            After(r))

\* arrayLoop with no policy test in its catch block: a rejected element
\* always ends the call
RECURSIVE arrayLoop_neverSwallows(_, _, _, _, _)
arrayLoop_neverSwallows(d, input_, i, result, m) ==
    IF i > Len(input_.els) THEN Return(result, m)
    ELSE LET r == Invoke(d.el, input_.els[i], m)
         IN  IF r.ok
             THEN arrayLoop_neverSwallows(d, input_, i + 1,
                            [result EXCEPT !.els = Append(@, r.val)],
                            Write(result.ref, NatToString(Len(result.els)),
                                  After(r)))
             ELSE Throw("TypeError", "invalid element", After(r))


\* the for-of of arrayDecoder from the i-th element on
RECURSIVE arrayLoop(_, _, _, _, _)
arrayLoop(d, input_, i, result, m) ==
    IF i > Len(input_.els) THEN Return(result, m)
    ELSE LET r == Invoke(d.el, input_.els[i], m)
         IN  IF r.ok
             THEN arrayLoop(d, input_, i + 1,
                            [result EXCEPT !.els = Append(@, r.val)],
                            Write(result.ref, NatToString(Len(result.els)),
                                  After(r)))
             ELSE IF d.invalidate = "all"
             THEN Throw("TypeError", "invalid element", After(r))
             ELSE arrayLoop(d, input_, i + 1, result, After(r))

\* arrayDecoder describing the rejected input in its error, as decodeArray
\* of an earlier revision did
arrayDecoder_describesInput(d, input_, m) ==
    IF ~IsArray(input_)
    THEN Throw("TypeError", printValueInfo(input_) \o " is not an array", m)
    ELSE LET r == arrayLoop(d, input_, 1, Arr(m.next, <<>>),
                            Machine(m.next + 1, m.calls, m.writes))
         IN  IF ~r.ok THEN r
             ELSE IF Len(r.val.els) < d.minSize
             THEN Throw("TypeError",
                        "Array length less than " \o NumToString(d.minSize),
                        After(r))
             ELSE r


\* arrayDecoder with the two checks in the other order: the elements its
\* decoder rejects are set aside, the size check runs, and only then does
\* policy 'all' throw for the rejected elements
arrayDecoder_sizeCheckFirst(d, input_, m) ==
    IF ~IsArray(input_) THEN Throw("TypeError", "Not an array", m)
    ELSE LET r == arrayLoop([d EXCEPT !.invalidate = "single"], input_, 1,
                            Arr(m.next, <<>>),
                            Machine(m.next + 1, m.calls, m.writes))
         IN  IF Len(r.val.els) < d.minSize
             THEN Throw("TypeError",
                        "Array length less than " \o NumToString(d.minSize),
                        After(r))
             ELSE IF d.invalidate = "all"
                     /\ Len(r.val.els) < Len(input_.els)
             THEN Throw("TypeError", "invalid element", After(r))
             ELSE r


\* arrayDecoder pushing the decoded elements onto the input array itself
arrayDecoder_pushesOntoInput(d, input_, m) ==
    IF ~IsArray(input_) THEN Throw("TypeError", "Not an array", m)
    ELSE LET r == arrayLoop(d, input_, 1, input_, m)
         IN  IF ~r.ok THEN r
             ELSE IF Len(r.val.els) < d.minSize
             THEN Throw("TypeError",
                        "Array length less than " \o NumToString(d.minSize),
                        After(r))
             ELSE r


\* arrayDecoder comparing input.length with minSize before anything else
arrayDecoder_sizeGuardFirst(d, input_, m) ==
    IF Len(input_.els) < d.minSize
    THEN Throw("TypeError",
               "Array length less than " \o NumToString(d.minSize), m)
    ELSE IF ~IsArray(input_) THEN Throw("TypeError", "Not an array", m)
    ELSE LET r == arrayLoop(d, input_, 1, Arr(m.next, <<>>),
                            Machine(m.next + 1, m.calls, m.writes))
         IN  IF ~r.ok THEN r
             ELSE IF Len(r.val.els) < d.minSize
             THEN Throw("TypeError",
                        "Array length less than " \o NumToString(d.minSize),
                        After(r))
             ELSE r


\* arrayDecoder comparing the length of the input, not of the result, with
\* minSize
arrayDecoder_checksInputLength(d, input_, m) ==
    IF ~IsArray(input_) THEN Throw("TypeError", "Not an array", m)
    ELSE LET r == arrayLoop(d, input_, 1, Arr(m.next, <<>>),
                            Machine(m.next + 1, m.calls, m.writes))
         IN  IF ~r.ok THEN r
             ELSE IF Len(input_.els) < d.minSize
             THEN Throw("TypeError",
                        "Array length less than " \o NumToString(d.minSize),
                        After(r))
             ELSE r

\* the closure beArrayOf returns
arrayDecoder(d, input_, m) ==
    IF ~IsArray(input_) THEN Throw("TypeError", "Not an array", m)
    ELSE LET r == arrayLoop(d, input_, 1, Arr(m.next, <<>>),
                            Machine(m.next + 1, m.calls, m.writes))
         IN  IF ~r.ok THEN r
             ELSE IF Len(r.val.els) < d.minSize
             THEN Throw("TypeError",
                        "Array length less than " \o NumToString(d.minSize),
                        After(r))
             ELSE r

\* makeDecoder(predicate, errorMessage) of the earlier API: the closure
\* `decoderFunctionExn`
makeDecoder(predicate, errorMessage) ==
    [kind |-> "makeDecoder", pred |-> predicate, msg |-> errorMessage]

\* the closure makeDecoder returns
decoderFunctionExn(d, val, m) ==
    IF ApplyPredicate(d.pred, val) THEN Return(val, m)
    ELSE Throw("TypeError", d.msg, m)

\* !x
Falsy(x) ==
    \/ x.kind \in {"null", "undefined"}
    \/ x.kind = "boolean" /\ x.n = 0
    \/ x.kind = "number" /\ x.n = 0
    \/ x.kind = "string" /\ x.s = ""

\* the tests' `x => { if (!x) throw Error('!!!'); return x }`
throwIfFalsy == [kind |-> "throwIfFalsy"]

\* applying a decoder to an input
Run(d, x, m) ==
    CASE d.kind = "be"         -> decoder(d, x, m)
      [] d.kind = "fallback"   -> decoratedDecoder(d, x, m)
      [] d.kind = "beObjectOf" -> objectDecoder(d, x, m)
      [] d.kind = "beDictOf"   -> dictDecoder(d, x, m)
      [] d.kind = "beArrayOf"  -> arrayDecoder(d, x, m)
      [] d.kind = "identity"   -> Return(x, m)
      [] d.kind = "raise"      -> Throw(d.errName, "custom failure", m)
      [] d.kind = "makeDecoder" -> decoderFunctionExn(d, x, m)
      [] d.kind = "throwIfFalsy" ->
           IF Falsy(x) THEN Throw("Error", "!!!", m) ELSE Return(x, m)

----------------------------------------------------------------------------
(* The earlier API: decode and decodeArray, functions of the input, a       *)
(* decoder, a fallback value and options.                                   *)

\* a call's result together with the errors its logger was called with
WithLog(r, log) ==
    [ok |-> r.ok, val |-> r.val, errName |-> r.errName, msg |-> r.msg,
     next |-> r.next, calls |-> r.calls, writes |-> r.writes, logged |-> log]

\* The options argument of decode.  `given` is FALSE when the argument is
\* omitted; logger is "" when the field is absent, "jestFn" for a logger
\* that takes note of its calls, "throws" for one that raises an error of
\* its own.
CatchOptions(given, logger) == [given |-> given, logger |-> logger]

\* the parameter default `{ logger = noop } = {}`
LoggerOf(options) ==
    IF options.given /\ options.logger # "" THEN options.logger ELSE "noop"

\* decode calling the logger on success too
decode_logsAlways(input_, dec, fallbackVal, options, m) ==
    LET r      == Run(dec, input_, m)
        logger == LoggerOf(options)
        e      == [errName |-> r.errName, msg |-> r.msg]
        log    == IF logger = "noop" THEN <<>> ELSE <<e>>
    IN  IF r.ok THEN WithLog(r, log)
        ELSE IF logger = "throws"
        THEN WithLog(Throw("Error", "logger failed", After(r)), log)
        ELSE WithLog(Return(fallbackVal, After(r)), log)

\* decode(input, decoder, fallback, options)
decode(input_, dec, fallbackVal, options, m) ==
    LET r      == Run(dec, input_, m)
        logger == LoggerOf(options)
        e      == [errName |-> r.errName, msg |-> r.msg]
        \* `logger(e)`: noop takes no note of the call
        log    == IF logger = "noop" THEN <<>> ELSE <<e>>
    IN  IF r.ok THEN WithLog(r, <<>>)
        ELSE IF logger = "throws"
        THEN WithLog(Throw("Error", "logger failed", After(r)), log)
        ELSE WithLog(Return(fallbackVal, After(r)), log)

\* The options argument of decodeArray.  `given` is FALSE when the argument
\* is omitted and hasInvalidate when its invalidate field is; element and
\* array are "" and minLength is -1 when absent; an absent message is
\* has-flag FALSE (undefined).
ArrayOptions(given, hasInvalidate, element, array, minLength, hasMinLengthError, minLengthError, hasNotAnArrayError, notAnArrayError) ==
    [given |-> given, hasInvalidate |-> hasInvalidate, element |-> element,
     array |-> array, minLength |-> minLength,
     hasMinLengthError |-> hasMinLengthError,
     minLengthError |-> minLengthError,
     hasNotAnArrayError |-> hasNotAnArrayError,
     notAnArrayError |-> notAnArrayError]

\* the parameter defaults of decodeArray
ElementOf(options) ==
    IF options.given /\ options.hasInvalidate /\ options.element # ""
    THEN options.element ELSE "single"

ArrayOf(options) ==
    IF options.given /\ options.hasInvalidate /\ options.array # ""
    THEN options.array ELSE "fallback"

MinLengthOf(options) ==
    IF options.given /\ options.minLength >= 0 THEN options.minLength ELSE 0

\* `message || otherwise`: an absent message and the empty string are both
\* falsy
OrElse(has, message, otherwise) ==
    IF has /\ message # "" THEN message ELSE otherwise

\* invalidateArray throwing whatever the array policy is
invalidateArray_alwaysThrows(options, fallbackVal, e, m) ==
    Throw(e.errName, e.msg, m)

\* invalidateArray(errorMaker), e being the error errorMaker makes
invalidateArray(options, fallbackVal, e, m) ==
    CASE ArrayOf(options) = "fallback" -> Return(fallbackVal, m)
      [] ArrayOf(options) = "throw"    -> Throw(e.errName, e.msg, m)

\* The for-of of decodeArray from the i-th element on.  `returned` tells
\* whether the loop left the function (`return invalidateArray(...)`) or
\* ran to its end, `res` being then the result array.
RECURSIVE decodeArrayLoop(_, _, _, _, _, _, _)
decodeArrayLoop(input_, elementDecoder, fallbackVal, options, i, result, m) ==
    IF i > Len(input_.els)
    THEN [returned |-> FALSE, res |-> Return(result, m)]
    ELSE LET r == Invoke(elementDecoder, input_.els[i], m)
         IN  IF r.ok
             THEN decodeArrayLoop(input_, elementDecoder, fallbackVal, options,
                                  i + 1,
                                  [result EXCEPT !.els = Append(@, r.val)],
                                  Write(result.ref,
                                        NatToString(Len(result.els)),
                                        After(r)))
             ELSE IF ElementOf(options) = "all"
             THEN [returned |-> TRUE,
                   res |-> invalidateArray(options, fallbackVal,
                               [errName |-> r.errName, msg |-> r.msg],
                               After(r))]
             ELSE decodeArrayLoop(input_, elementDecoder, fallbackVal, options,
                                  i + 1, result, After(r))

\* the error of an input that is not an array
NotAnArrayErrorOf(options, input_) ==
    [errName |-> "TypeError",
     msg |-> OrElse(options.given /\ options.hasNotAnArrayError,
                    options.notAnArrayError,
                    printValueInfo(input_) \o " is not an array")]

\* the error of a result shorter than minLength
MinLengthErrorOf(options, length) ==
    [errName |-> "Error",
     msg |-> OrElse(options.given /\ options.hasMinLengthError,
                    options.minLengthError,
                    "Array length (" \o NatToString(length)
                      \o ") less than specified ("
                      \o NatToString(MinLengthOf(options)) \o ")")]

\* decodeArray(input, elementDecoder, fallback, options)
decodeArray(input_, elementDecoder, fallbackVal, options, m) ==
    IF ~IsArray(input_)
    THEN invalidateArray(options, fallbackVal,
                         NotAnArrayErrorOf(options, input_), m)
    ELSE LET l == decodeArrayLoop(input_, elementDecoder, fallbackVal,
                                  options, 1, Arr(m.next, <<>>),
                                  Machine(m.next + 1, m.calls, m.writes))
         IN  IF l.returned THEN l.res
             ELSE IF Len(l.res.val.els) < MinLengthOf(options)
             THEN invalidateArray(options, fallbackVal,
                                  MinLengthErrorOf(options,
                                                   Len(l.res.val.els)),
                                  After(l.res))
             ELSE l.res

----------------------------------------------------------------------------
(* The inputs and decoders tried.  An input array or object holds heap     *)
(* reference 1 and a container nested at position i holds 1 + i; the input  *)
(* of a second call holds SecondRef; a container used as a fallback value   *)
(* holds FallbackRef; the decoders allocate from FirstFree on.              *)

SecondRef   == MaxLen + MaxKeys + 1
FallbackRef == MaxLen + MaxKeys + 2
FirstFree   == MaxLen + MaxKeys + 3

SeqsUpTo(S, n) == UNION {[1..k -> S] : k \in 0..n}

InjectiveSeqsUpTo(S, n) ==
    {q \in SeqsUpTo(S, n) :
        \A i, j \in 1..Len(q) : i # j => q[i] # q[j]}

AtomInputs ==
    {Null, Undefined, Bool(TRUE), Bool(FALSE), Num(0), Num(20), Num(-14),
     Num(7), Str(""), Str("20"), Str("twenty"), Fn}

\* the elements of the generated input arrays
ElementVals == {Str("1"), Str("2"), Num(3), Num(4)}

\* the property names and values of the generated input objects
KeyPool   == {"name", "age", "hobby", "x"}
FieldVals == {Str("Tony"), Num(44)}

\* the artists of the tests' nested examples, at heap reference r
Artist(r, name, albums) ==
    Obj(r, <<"name", "albums">>, <<Str(name), Num(albums)>>)

ArrayInputs ==
    {Arr(1, els) : els \in SeqsUpTo(ElementVals, MaxLen)}
    \cup {Arr(1, <<Artist(2, "Alice", 27), Artist(3, "Bob", 39)>>),
          Arr(1, <<Artist(2, "Alice", 27), Obj(3, <<"name">>, <<Str("Chuck")>>)>>),
          Arr(1, <<Num(3), Bool(FALSE), Num(-7)>>),
          Arr(1, <<Arr(2, <<Str("1")>>), Null, Undefined>>),
          \* an array carrying named properties besides its elements
          ArrX(1, <<Num(1), Str("five")>>,
               <<"name", "age">>, <<Str("Joe"), Num(33)>>)}

ObjectInputs ==
    UNION {{Obj(1, ks, vs) : vs \in [1..Len(ks) -> FieldVals]} :
              ks \in InjectiveSeqsUpTo(KeyPool, MaxKeys)}
    \cup {Obj(1, <<"name", "age", "hobby">>,
              <<Str("Tony"), Num(44), Arr(4, <<Str("tea"), Str("bonsai")>>)>>),
          Obj(1, <<"name", "age">>, <<Str("Constantine"), Str("of Empires")>>),
          Obj(1, <<"name", "age">>, <<Undefined, Num(44)>>),
          Obj(1, <<"age", "name">>, <<Null, Str("Sara")>>),
          Obj(1, <<"x", "y", "z">>, <<Str("1"), Str("2"), Num(3)>>),
          \* { name: undefined, surname: 'Johnson', 1: 'yes' }
          Obj(1, <<"1", "name", "surname">>,
              <<Str("yes"), Undefined, Str("Johnson")>>),
          Obj(1, <<"1", "name">>, <<Num(44), Str("Tony")>>),
          Obj(1, <<"name", "hobby">>,
              <<Str("Tony"), Arr(3, <<Str("tea"), Num(1)>>)>>),
          Obj(1, <<"a", "b">>,
              <<Artist(2, "Alice", 27), Obj(3, <<"name">>, <<Str("Chuck")>>)>>)}

Inputs == AtomInputs \cup ArrayInputs \cup ObjectInputs

\* the other inputs a decoder already called once is called on
SecondInputs ==
    {Str("twenty"),
     Arr(SecondRef, <<Str("1"), Num(3)>>),
     Obj(SecondRef, <<"name">>, <<Str("Tony")>>)}

\* the type guards handed to be
Predicates == {"isString", "isNumber", "isBoolean", "isEven"}

\* the fallback values handed to fallback
FallbackVals ==
    {Null, Num(0), Str("<NULL>"), Arr(FallbackRef, <<Str("a"), Num(1)>>)}

beString == be("isString")
beNumber == be("isNumber")

\* an options argument with the given fields; "" and -1 stand for a field
\* left out
OptionsWith(invalidate, minSize) ==
    Options(TRUE, invalidate # "", invalidate, minSize >= 0,
            IF minSize >= 0 THEN minSize ELSE 0)

OptionsSet ==
    {NoOptions}
    \cup {OptionsWith(inv, ms) :
            inv \in {"", "single", "all"}, ms \in (0 - 1)..MaxMinSize}

\* the decoders wrapped by fallback
InnerDecoders ==
    {beString, beNumber, beObject, identityDecoder,
     raisingDecoder("RangeError"), raisingDecoder("Error"),
     beObjectOf(<<[key |-> "name", dec |-> beString],
                  [key |-> "age", dec |-> beNumber]>>),
     beArrayOf(beNumber, OptionsWith("all", 0 - 1)),
     beArrayOf(beNumber, NoOptions),
     beDictOf(beString, OptionsWith("", 1))}

\* the fieldDecoders handed to beObjectOf
FieldDecoderSets ==
    {<<>>,
     <<[key |-> "name", dec |-> beString], [key |-> "age", dec |-> beNumber]>>,
     <<[key |-> "age", dec |-> beNumber], [key |-> "name", dec |-> beString]>>,
     <<[key |-> "name", dec |-> beString], [key |-> "age", dec |-> beString]>>,
     <<[key |-> "name", dec |-> beString],
       [key |-> "age", dec |-> fallback(Num(0), beString)]>>,
     <<[key |-> "name", dec |-> fallback(Null, beNumber)],
       [key |-> "age", dec |-> beNumber]>>,
     <<[key |-> "name", dec |-> identityDecoder],
       [key |-> "hobby", dec |-> beArrayOf(beString, NoOptions)]>>,
     <<[key |-> "hobby",
        dec |-> fallback(Str("<NULL>"),
                         beArrayOf(beString, OptionsWith("all", 0 - 1)))],
       [key |-> "name", dec |-> beString]>>,
     <<[key |-> "a", dec |-> beObjectOf(<<[key |-> "name", dec |-> beString]>>)],
       [key |-> "b", dec |-> beDictOf(beString, NoOptions)]>>,
     <<[key |-> "name", dec |-> beString],
       [key |-> "hobby",
        dec |-> beArrayOf(beString, OptionsWith("all", 0 - 1))]>>,
     <<[key |-> "name", dec |-> beString], [key |-> "1", dec |-> beNumber]>>,
     <<[key |-> "x", dec |-> raisingDecoder("RangeError")]>>}

\* the decoders handed to decode and decodeArray
EarlierDecoders ==
    {makeDecoder("isString", "!"), makeDecoder("isNumber", "Failed"),
     throwIfFalsy, identityDecoder}

\* the fallback values handed to decode and decodeArray
EarlierFallbacks == {Null, Num(77)}

\* the options handed to decode
CatchOptionsSet ==
    {CatchOptions(FALSE, "")}
    \cup {CatchOptions(TRUE, l) : l \in {"", "jestFn", "throws"}}

\* the caller's minLengthError and notAnArrayError: left out, empty, or a
\* message
MessagesGiven(message) ==
    {[has |-> FALSE, s |-> ""], [has |-> TRUE, s |-> ""],
     [has |-> TRUE, s |-> message]}

\* the options handed to decodeArray
ArrayOptionsSet ==
    {ArrayOptions(FALSE, FALSE, "", "", 0 - 1, FALSE, "", FALSE, "")}
    \cup {ArrayOptions(TRUE, FALSE, "", "", ml, le.has, le.s, ne.has, ne.s) :
            ml \in {0 - 1, 0, MaxMinSize - 1},
            le \in MessagesGiven("Way too short!"),
            ne \in MessagesGiven("Not a list")}
    \cup {ArrayOptions(TRUE, TRUE, el, ar, ml, le.has, le.s, ne.has, ne.s) :
            el \in {"", "single", "all"}, ar \in {"", "fallback", "throw"},
            ml \in {0 - 1, 0, MaxMinSize - 1},
            le \in MessagesGiven("Way too short!"),
            ne \in MessagesGiven("Not a list")}

\* the element decoders handed to beArrayOf and beDictOf
ElementDecoders ==
    {beString, beNumber, identityDecoder,
     fallback(Str("<NULL>"), beNumber),
     beObjectOf(<<[key |-> "name", dec |-> beString],
                  [key |-> "albums", dec |-> beNumber]>>),
     fallback(Null, beObjectOf(<<[key |-> "name", dec |-> beString],
                                 [key |-> "albums", dec |-> beNumber]>>)),
     raisingDecoder("RangeError")}

----------------------------------------------------------------------------
(* The state machine: one decoder is built and called on the input, and     *)
(* may then be called once more: on its own result, on the same input or     *)
(* on another input.                                                         *)

NoOutcome ==
    [ok |-> FALSE, val |-> Undefined, errName |-> "", msg |-> ""]

\* what is in `outcome2` before the second call
NoSecondOutcome ==
    [ok |-> FALSE, val |-> Undefined, errName |-> "", msg |-> "",
     next |-> FirstFree, calls |-> <<>>, writes |-> <<>>]

Init ==
    /\ pc = "init"
    /\ input \in Inputs
    /\ built = NoDecoder
    /\ outcome = NoOutcome
    /\ calls = <<>>
    /\ next = FirstFree
    /\ writes = <<>>
    /\ input2 = Undefined
    /\ outcome2 = NoSecondOutcome
    /\ called = ""
    /\ logged = <<>>

\* call decoder d on the input and record what it did
Call(d) ==
    LET r == Run(d, input, Machine(FirstFree, <<>>, <<>>))
    IN  /\ pc' = "done"
        /\ built' = d
        /\ outcome' = [ok |-> r.ok, val |-> r.val,
                       errName |-> r.errName, msg |-> r.msg]
        /\ calls' = r.calls
        /\ next' = r.next
        /\ writes' = r.writes
        /\ UNCHANGED <<input, input2, outcome2, logged>>

\* call the decoder built before once more, on x; the heap and the logs go
\* on from where the first call left them
CallOn(x) ==
    /\ input2' = x
    /\ outcome2' = Run(built, x, Machine(next, calls, writes))
    /\ UNCHANGED <<input, built, outcome, calls, next, writes, called,
                   logged>>

\* be(predicate)(input)
Be ==
    /\ pc = "init"
    /\ called' = "be"
    /\ \E p \in Predicates : Call(be(p))

\* fallback(fallbackVal)(dec)(input)
Fallback ==
    /\ pc = "init"
    /\ called' = "fallback"
    /\ \E f \in FallbackVals, d \in InnerDecoders : Call(fallback(f, d))

\* or(fallbackVal)(dec)(input)
Or ==
    /\ pc = "init"
    /\ called' = "or"
    /\ \E f \in FallbackVals, d \in InnerDecoders : Call(or(f, d))

\* beObject(input)
BeObject ==
    /\ pc = "init"
    /\ called' = "beObject"
    /\ Call(beObject)

\* beObjectOf(fieldDecoders)(input)
BeObjectOf ==
    /\ pc = "init"
    /\ called' = "beObjectOf"
    /\ \E fds \in FieldDecoderSets : Call(beObjectOf(fds))

\* beDictOf(elDecoder, options)(input)
BeDictOf ==
    /\ pc = "init"
    /\ called' = "beDictOf"
    /\ \E el \in ElementDecoders, o \in OptionsSet : Call(beDictOf(el, o))

\* beArrayOf(elDecoder, options)(input)
BeArrayOf ==
    /\ pc = "init"
    /\ called' = "beArrayOf"
    /\ \E el \in ElementDecoders, o \in OptionsSet : Call(beArrayOf(el, o))

\* record what a call of the earlier API did; r is its result and log the
\* errors its logger was called with
CallEarlier(args, r, log) ==
    /\ pc' = "decoded"
    /\ built' = args
    /\ outcome' = [ok |-> r.ok, val |-> r.val,
                   errName |-> r.errName, msg |-> r.msg]
    /\ calls' = r.calls
    /\ next' = r.next
    /\ writes' = r.writes
    /\ logged' = log
    /\ UNCHANGED <<input, input2, outcome2>>

\* decode(input, decoder, fallback, options)
Decode ==
    /\ pc = "init"
    /\ called' = "decode"
    /\ \E d \in EarlierDecoders, f \in EarlierFallbacks,
          o \in CatchOptionsSet :
         LET r == decode(input, d, f, o, Machine(FirstFree, <<>>, <<>>))
         IN  CallEarlier([kind |-> "decode", dec |-> d, fallbackVal |-> f,
                          options |-> o],
                         r, r.logged)

\* decodeArray(input, elementDecoder, fallback, options)
DecodeArray ==
    /\ pc = "init"
    /\ called' = "decodeArray"
    /\ \E d \in EarlierDecoders, f \in EarlierFallbacks,
          o \in ArrayOptionsSet :
         CallEarlier([kind |-> "decodeArray", dec |-> d, fallbackVal |-> f,
                      options |-> o],
                     decodeArray(input, d, f, o,
                                 Machine(FirstFree, <<>>, <<>>)),
                     <<>>)

\* d(d(input)): the decoder is given what it returned
Redecode ==
    /\ pc = "done"
    /\ outcome.ok
    /\ pc' = "redecoded"
    /\ CallOn(outcome.val)

\* d(input) followed by d(x), for the same input or another one
CallAgain ==
    /\ pc = "done"
    /\ pc' = "again"
    /\ \E x \in SecondInputs \cup {input} : CallOn(x)

Next ==
    \/ Be
    \/ Fallback
    \/ Or
    \/ BeObject
    \/ BeObjectOf
    \/ BeDictOf
    \/ BeArrayOf
    \/ Decode
    \/ DecodeArray
    \/ Redecode
    \/ CallAgain

Spec == Init /\ [][Next]_vars

----------------------------------------------------------------------------
(* Vocabulary of the properties *)

\* the machine state every call starts from
M0 == Machine(FirstFree, <<>>, <<>>)

\* d(x) taken alone
Alone(d, x) == Run(d, x, M0)

\* whether d accepts x (a decoder's success does not depend on the heap)
Accepts(d, x) == Alone(d, x).ok

\* needle occurs in hay (both strings)
Contains(hay, needle) ==
    \E i \in 1..(Len(hay) - Len(needle) + 1) :
        SubSeq(hay, i, i + Len(needle) - 1) = needle

\* a value up to the identity of its containers, as toStrictEqual compares
RECURSIVE Structure(_)
Structure(v) ==
    [v EXCEPT !.ref = 0,
              !.els = [i \in 1..Len(v.els) |-> Structure(v.els[i])],
              !.vals = [i \in 1..Len(v.vals) |-> Structure(v.vals[i])]]

\* the heap references of the containers of a value
RECURSIVE RefsOf(_)
RefsOf(v) ==
    (IF v.kind \in {"array", "object"} THEN {v.ref} ELSE {})
    \cup UNION {RefsOf(v.els[i]) : i \in 1..Len(v.els)}
    \cup UNION {RefsOf(v.vals[i]) : i \in 1..Len(v.vals)}

\* the positions of xs that d accepts, and the structures of what d returns
\* there, in order
AcceptedAt(d, xs) == {i \in 1..Len(xs) : Accepts(d, xs[i])}

RECURSIVE DecodedFrom(_, _, _)
DecodedFrom(d, xs, i) ==
    IF i > Len(xs) THEN <<>>
    ELSE (IF Accepts(d, xs[i]) THEN <<Structure(Alone(d, xs[i]).val)>>
          ELSE <<>>)
         \o DecodedFrom(d, xs, i + 1)

\* the elements of xs satisfying predicate p, in order
RECURSIVE Satisfying(_, _, _)
Satisfying(p, xs, i) ==
    IF i > Len(xs) THEN <<>>
    ELSE (IF ApplyPredicate(p, xs[i]) THEN <<xs[i]>> ELSE <<>>)
         \o Satisfying(p, xs, i + 1)

KeySet(v) == {v.keys[i] : i \in 1..Len(v.keys)}

DeclaredKeys(d) == {d.fields[i].key : i \in 1..Len(d.fields)}

Done(kind) == pc = "done" /\ built.kind = kind

----------------------------------------------------------------------------
(* The properties *)

\* C1: whenever the predicate holds of the input, be(predicate)(input)
\* succeeds and returns the input itself: the same value and, for an array
\* or object, the same heap object.
C1_BeReturnsInput ==
    (Done("be") /\ ApplyPredicate(built.pred, input))
        => (outcome.ok /\ outcome.val = input)

\* C1 witness: be accepted an object and handed back that very object
C1_Witness ==
    /\ Done("be")
    /\ ApplyPredicate(built.pred, input)
    /\ input.kind = "object"
    /\ Len(input.keys) > 0
    /\ outcome.ok
    /\ outcome.val.ref = input.ref

\* C2: whenever the predicate fails on the input, be(predicate)(input)
\* returns nothing and throws a TypeError whose message holds the input's
\* rendering, in quotes if and only if the input is a string, followed by
\* its typeof tag.
C2_BeFailureMessage ==
    (Done("be") /\ ~ApplyPredicate(built.pred, input))
        => /\ ~outcome.ok
           /\ outcome.val = Undefined
           /\ outcome.errName = "TypeError"
           /\ Contains(outcome.msg,
                       StringOf(input) \o
                       (IF input.kind = "string" THEN RQuote ELSE "") \o
                       " (" \o TypeOf(input) \o ")")
           /\ Contains(outcome.msg, LQuote \o StringOf(input) \o RQuote)
                <=> input.kind = "string"

\* C2 witness: be(isNumber) rejected the string "20"
C2_Witness ==
    /\ Done("be")
    /\ built.pred = "isNumber"
    /\ input = Str("20")
    /\ ~outcome.ok
    /\ outcome.msg = "assertion failed on \"20\" (string)"

\* C3: fallback(f)(d)(x) returns what d(x) returns when d(x) succeeds, and
\* returns f when d(x) fails.
C3_FallbackResult ==
    Done("fallback")
        => /\ outcome.ok
           /\ outcome.val = (IF Accepts(built.inner, input)
                             THEN Alone(built.inner, input).val
                             ELSE built.fb)

\* C3 witness: the wrapped decoder succeeded on the input with a value that
\* is not the fallback value, and that value came back
C3_Witness ==
    /\ Done("fallback")
    /\ Accepts(built.inner, input)
    /\ built.inner.kind = "beObjectOf"
    /\ outcome.ok
    /\ outcome.val # built.fb
    /\ outcome.val.kind = "object"

\* C4: a decoder built by fallback never fails: whatever error the wrapped
\* decoder raises (the library's TypeError or an error of another kind) the
\* call returns the fallback value and carries no error.
C4_FallbackNeverFails ==
    Done("fallback")
        => /\ outcome.ok
           /\ outcome.errName = ""
           /\ outcome.msg = ""
           /\ \A e \in {"TypeError", "RangeError", "Error"} :
                (Alone(built.inner, input).errName = e)
                    => outcome.val = built.fb

\* C4 witness: the wrapped decoder raised an error that is not a TypeError
\* and the fallback value came back
C4_Witness ==
    /\ Done("fallback")
    /\ ~Accepts(built.inner, input)
    /\ Alone(built.inner, input).errName = "RangeError"
    /\ outcome.ok
    /\ outcome.val = built.fb

\* C5: under the default policy ('single', no minimum) beArrayOf on an array
\* succeeds and returns, in input order, exactly what the element decoder
\* returns for the elements it accepts; for an element decoder be(p) that is
\* the sub-sequence of the input's elements satisfying p, the very same
\* values, nothing added, dropped twice or reordered.
C5_ArraySurvivorsInOrder ==
    (Done("beArrayOf") /\ built.invalidate = "single" /\ built.minSize = 0
        /\ IsArray(input))
        => /\ outcome.ok
           /\ outcome.val.kind = "array"
           /\ Structure(outcome.val).els = DecodedFrom(built.el, input.els, 1)
           /\ built.el.kind = "be"
                => outcome.val.els = Satisfying(built.el.pred, input.els, 1)

\* C5 witness: a rejected element sat between two accepted, different ones
C5_Witness ==
    /\ Done("beArrayOf")
    /\ built.invalidate = "single"
    /\ built.minSize = 0
    /\ built.el = beString
    /\ input = Arr(1, <<Str("2"), Num(3), Str("1")>>)
    /\ outcome.ok
    /\ outcome.val.els = <<Str("2"), Str("1")>>

\* C6: under policy 'all', beArrayOf on an array with at least one element
\* the element decoder rejects, at whatever position, fails and returns
\* nothing, not even the elements decoded before the rejected one.
C6_ArrayInvalidateAll ==
    (Done("beArrayOf") /\ built.invalidate = "all" /\ IsArray(input)
        /\ AcceptedAt(built.el, input.els) # 1..Len(input.els))
        => /\ ~outcome.ok
           /\ outcome.val = Undefined

\* C6 witness: the only rejected element was the last one, after two
\* accepted ones, and minSize was met by those two
C6_Witness ==
    /\ Done("beArrayOf")
    /\ built.invalidate = "all"
    /\ IsArray(input)
    /\ Len(input.els) = 3
    /\ AcceptedAt(built.el, input.els) = {1, 2}
    /\ built.minSize <= 2
    /\ ~outcome.ok

\* C7: under policy 'single', beArrayOf with minSize n on an array fails if
\* and only if fewer than n elements were decoded successfully, whatever the
\* length of the input; when it succeeds it returns those survivors.
C7_ArrayMinSize ==
    (Done("beArrayOf") /\ built.invalidate = "single" /\ IsArray(input))
        => LET survivors == Cardinality(AcceptedAt(built.el, input.els))
           IN  /\ ~outcome.ok <=> survivors < built.minSize
               /\ outcome.ok => Len(outcome.val.els) = survivors
               /\ outcome.ok =>
                    Structure(outcome.val).els =
                        DecodedFrom(built.el, input.els, 1)

\* C7 witness: the input was as long as minSize asks but too few of its
\* elements survived
C7_Witness ==
    /\ Done("beArrayOf")
    /\ built.invalidate = "single"
    /\ IsArray(input)
    /\ built.minSize = 2
    /\ Len(input.els) >= 2
    /\ Cardinality(AcceptedAt(built.el, input.els)) = 1
    /\ ~outcome.ok
    /\ outcome.msg = "Array length less than 2"

\* the own keys of object x whose value d accepts
AcceptedKeys(d, x) == {k \in KeySet(x) : Accepts(d, GetProp(x, k))}

\* C8: beDictOf on an object, keyed by property name: under policy 'single'
\* with no minimum it succeeds with a mapping whose keys are exactly the
\* input's own keys whose value the element decoder accepts, each mapped to
\* what the decoder returns for it; under policy 'all' it fails when any
\* value is rejected; under policy 'single' with minSize n it fails if and
\* only if fewer than n values were decoded successfully.
C8_DictPolicies ==
    (Done("beDictOf") /\ isObject(input))
        => LET accepted == AcceptedKeys(built.el, input)
           IN  /\ (built.invalidate = "single" /\ built.minSize = 0)
                    => outcome.ok
               /\ (built.invalidate = "all" /\ accepted # KeySet(input))
                    => (~outcome.ok /\ outcome.val = Undefined)
               /\ built.invalidate = "single"
                    => (~outcome.ok <=> Cardinality(accepted) < built.minSize)
               /\ (built.invalidate = "single" /\ outcome.ok)
                    => /\ outcome.val.kind = "object"
                       /\ KeySet(outcome.val) = accepted
                       /\ Len(outcome.val.keys) = Cardinality(accepted)
                       /\ \A k \in accepted :
                            Structure(GetProp(outcome.val, k)) =
                              Structure(Alone(built.el,
                                              GetProp(input, k)).val)

\* C8 witness: of the three values of {x: "1", y: "2", z: 3} the string
\* decoder kept two and dropped the third
C8_Witness ==
    /\ Done("beDictOf")
    /\ built.el = beString
    /\ built.invalidate = "single"
    /\ input = Obj(1, <<"x", "y", "z">>, <<Str("1"), Str("2"), Num(3)>>)
    /\ outcome.ok
    /\ outcome.val.keys = <<"x", "y">>
    /\ outcome.val.vals = <<Str("1"), Str("2")>>

\* C9: beObjectOf succeeds exactly when the input is an object and every
\* field decoder accepts the input's value at its key, whatever other
\* properties the input has; the result is then a new object, not the
\* input, whose keys are exactly the declared keys, each mapped to what its
\* field decoder returns for the input's value at that key.
C9_ObjectExactlyDeclaredFields ==
    Done("beObjectOf")
        => /\ (isObject(input)
                /\ \A i \in 1..Len(built.fields) :
                     Accepts(built.fields[i].dec,
                             GetProp(input, built.fields[i].key)))
                => outcome.ok
           /\ outcome.ok
                => /\ outcome.val.kind = "object"
                   /\ outcome.val.ref \notin RefsOf(input)
                   /\ outcome.val.ref >= FirstFree
                   /\ KeySet(outcome.val) = DeclaredKeys(built)
                   /\ Len(outcome.val.keys) = Len(built.fields)
                   /\ \A i \in 1..Len(built.fields) :
                        Structure(GetProp(outcome.val, built.fields[i].key)) =
                          Structure(Alone(built.fields[i].dec,
                                          GetProp(input,
                                                  built.fields[i].key)).val)

\* C9 witness: the input had a property no field decoder names, and the
\* result holds the two declared fields only
C9_Witness ==
    /\ Done("beObjectOf")
    /\ DeclaredKeys(built) = {"name", "age"}
    /\ KeySet(input) = {"name", "age", "hobby"}
    /\ outcome.ok
    /\ KeySet(outcome.val) = {"name", "age"}
    /\ outcome.val.ref # input.ref

\* C10: a beObjectOf call either fails, returning nothing, or returns a
\* record holding every declared field; it fails whenever one field decoder
\* rejects the input's value at its key (a wrong type or a missing
\* property), whichever field that is.
C10_ObjectAllOrNothing ==
    Done("beObjectOf")
        => /\ outcome.ok => \A k \in DeclaredKeys(built) : HasKey(outcome.val, k)
           /\ ~outcome.ok => outcome.val = Undefined
           /\ (\E i \in 1..Len(built.fields) :
                 ~Accepts(built.fields[i].dec,
                          GetProp(input, built.fields[i].key)))
                => ~outcome.ok

\* C10 witness: the first declared field decoded and the second, missing
\* from the input, did not; nothing was returned
C10_Witness ==
    /\ Done("beObjectOf")
    /\ isObject(input)
    /\ Len(built.fields) = 2
    /\ Accepts(built.fields[1].dec, GetProp(input, built.fields[1].key))
    /\ ~HasKey(input, built.fields[2].key)
    /\ ~Accepts(built.fields[2].dec, Undefined)
    /\ ~outcome.ok
    /\ outcome.val = Undefined

\* C11: in a beObjectOf call on an object whose other fields decode, a
\* field whose decoder is fallback(v)(d) and whose input value d rejects
\* does not stop the decode: the result holds every declared field, that
\* field holds v itself, and each other field holds what its decoder
\* returns.
C11_ObjectFieldFallback ==
    (/\ Done("beObjectOf")
     /\ isObject(input)
     /\ \A i \in 1..Len(built.fields) :
          built.fields[i].dec.kind # "fallback"
            => Accepts(built.fields[i].dec,
                       GetProp(input, built.fields[i].key)))
        => /\ outcome.ok
           /\ KeySet(outcome.val) = DeclaredKeys(built)
           /\ \A i \in 1..Len(built.fields) :
                LET key == built.fields[i].key
                    dec == built.fields[i].dec
                IN  IF dec.kind = "fallback"
                       /\ ~Accepts(dec.inner, GetProp(input, key))
                    THEN GetProp(outcome.val, key) = dec.fb
                    ELSE Structure(GetProp(outcome.val, key)) =
                           Structure(Alone(dec, GetProp(input, key)).val)

\* C11 witness: age, decoded by fallback(0)(beString), held the number 44;
\* the result is { name: 'Tony', age: 0 }
C11_Witness ==
    /\ Done("beObjectOf")
    /\ Len(built.fields) = 2
    /\ built.fields[1] = [key |-> "name", dec |-> beString]
    /\ built.fields[2].key = "age"
    /\ built.fields[2].dec.kind = "fallback"
    /\ GetProp(input, "name") = Str("Tony")
    /\ GetProp(input, "age") = Num(44)
    /\ ~Accepts(built.fields[2].dec.inner, Num(44))
    /\ outcome.ok
    /\ Structure(outcome.val) =
         Structure(Obj(0, <<"name", "age">>, <<Str("Tony"), Num(0)>>))

\* C12: whatever the element decoder, the field decoders and the options,
\* beArrayOf fails on every input that is not an array (null, a number, a
\* string, a boolean, a plain object), and beObjectOf and beDictOf fail on
\* every input that is null, a number, a string or a boolean; no element
\* or field decoder is called and nothing is returned.
C12_ShapeGuards ==
    /\ (Done("beArrayOf")
        /\ input.kind \in {"null", "number", "string", "boolean", "object"})
          => /\ ~outcome.ok
             /\ outcome.val = Undefined
             /\ calls = <<>>
    /\ ((Done("beObjectOf") \/ Done("beDictOf"))
        /\ input.kind \in {"null", "number", "string", "boolean"})
          => /\ ~outcome.ok
             /\ outcome.val = Undefined
             /\ calls = <<>>

\* C12 witness: beObjectOf with no field decoder at all, so that nothing
\* but the guard could fail, rejected null
C12_Witness ==
    /\ Done("beObjectOf")
    /\ built.fields = <<>>
    /\ input = Null
    /\ ~outcome.ok
    /\ outcome.msg = "Not an object"

ArrayTooShort(minSize) == "Array length less than " \o NumToString(minSize)
DictTooSmall(minSize) ==
    "Dic elements count less than " \o NumToString(minSize)

\* C15: in beArrayOf and beDictOf the element check comes before the size
\* check.  Under 'all', as soon as the element decoder rejects one element
\* the call fails with "invalid element", whatever minSize is and however
\* many elements would have survived; the size failure is raised only by a
\* traversal that no rejected element stopped (policy 'single', or every
\* element accepted).
C15_ElementCheckBeforeSizeCheck ==
    /\ (Done("beArrayOf") /\ IsArray(input) /\ built.invalidate = "all"
        /\ AcceptedAt(built.el, input.els) # 1..Len(input.els))
          => (~outcome.ok /\ outcome.msg = "invalid element")
    /\ (Done("beDictOf") /\ isObject(input) /\ built.invalidate = "all"
        /\ AcceptedAt(built.el, input.vals) # 1..Len(input.vals))
          => (~outcome.ok /\ outcome.msg = "invalid element")
    /\ (Done("beArrayOf") /\ ~outcome.ok
        /\ outcome.msg = ArrayTooShort(built.minSize))
          => /\ IsArray(input)
             /\ built.invalidate = "single"
                  \/ AcceptedAt(built.el, input.els) = 1..Len(input.els)
             /\ Cardinality(AcceptedAt(built.el, input.els)) < built.minSize
    /\ (Done("beDictOf") /\ ~outcome.ok
        /\ outcome.msg = DictTooSmall(built.minSize))
          => /\ isObject(input)
             /\ built.invalidate = "single"
                  \/ AcceptedAt(built.el, input.vals) = 1..Len(input.vals)
             /\ Cardinality(AcceptedAt(built.el, input.vals)) < built.minSize

\* C15 witness: under 'all' with minSize 3 a two-element array whose first
\* element decodes and whose second does not failed with "invalid element",
\* though its one survivor would not have met minSize either
C15_Witness ==
    /\ Done("beArrayOf")
    /\ built.invalidate = "all"
    /\ built.minSize = 3
    /\ IsArray(input)
    /\ Len(input.els) = 2
    /\ AcceptedAt(built.el, input.els) = {1}
    /\ ~outcome.ok
    /\ outcome.msg = "invalid element"

\* the options arguments that set no minSize and leave the policy at
\* 'single': none at all, {}, { invalidate: 'single' }
NoMinSizeOptions ==
    {o \in OptionsSet :
        ~(o.given /\ o.hasMinSize) /\ InvalidateOf(o) = "single"}

\* C20: with no minSize given and the default policy, a collection decode
\* in which no element survives succeeds with an empty result: beArrayOf
\* returns a new [] and beDictOf a new {}, for an empty input as for an
\* input whose every element the element decoder rejects.
C20_EmptyResultSucceeds ==
    /\ (Done("beArrayOf") /\ IsArray(input)
        /\ (\E o \in NoMinSizeOptions : built = beArrayOf(built.el, o))
        /\ AcceptedAt(built.el, input.els) = {})
          => /\ outcome.ok
             /\ Structure(outcome.val) = Structure(Arr(0, <<>>))
             /\ outcome.val.ref \notin RefsOf(input)
    /\ (Done("beDictOf") /\ isObject(input)
        /\ (\E o \in NoMinSizeOptions : built = beDictOf(built.el, o))
        /\ AcceptedAt(built.el, input.vals) = {})
          => /\ outcome.ok
             /\ Structure(outcome.val) = Structure(Obj(0, <<>>, <<>>))
             /\ outcome.val.ref \notin RefsOf(input)

\* C20 witness: beDictOf, called without options, met a two-key object
\* neither of whose values its element decoder accepts, and returned {}
C20_Witness ==
    /\ Done("beDictOf")
    /\ built = beDictOf(built.el, NoOptions)
    /\ isObject(input)
    /\ Len(input.keys) = 2
    /\ AcceptedAt(built.el, input.vals) = {}
    /\ outcome.ok
    /\ outcome.val.keys = <<>>

\* the direct sub-decoder calls of the call made: a field decoder on the
\* input's value at its key, or the element decoder on an element
SubCalls ==
    CASE built.kind = "beObjectOf" /\ isObject(input) ->
           {[d |-> built.fields[i].dec,
             x |-> GetProp(input, built.fields[i].key)] :
              i \in 1..Len(built.fields)}
      [] built.kind = "beArrayOf" /\ IsArray(input) ->
           {[d |-> built.el, x |-> input.els[i]] : i \in 1..Len(input.els)}
      [] built.kind = "beDictOf" /\ isObject(input) ->
           {[d |-> built.el, x |-> input.vals[i]] : i \in 1..Len(input.vals)}
      [] OTHER -> {}

\* the sub-decoder calls that fail
FailedSubCalls == {c \in SubCalls : ~Accepts(c.d, c.x)}

\* the first field of beObjectOf, in the order the call visits them, whose
\* decoder rejects
FirstRejectedField ==
    LET fields == ObjectKeys(built.fields)
    IN  fields[CHOOSE i \in 1..Len(fields) :
                 /\ ~Accepts(fields[i].dec, GetProp(input, fields[i].key))
                 /\ \A j \in 1..(i - 1) :
                      Accepts(fields[j].dec, GetProp(input, fields[j].key))]

\* C19 as stated: no decoder but one built by fallback turns the failure
\* of one of its sub-decoders into a success; when a field or element
\* decoder fails, the beObjectOf, beArrayOf or beDictOf call fails.
C19_OnlyFallbackRecovers ==
    (pc = "done" /\ built.kind # "fallback" /\ FailedSubCalls # {})
        => ~outcome.ok

\* C19, amended: a failing field decoder makes beObjectOf fail with that
\* decoder's own error, and under 'all' a failing element decoder makes
\* beArrayOf and beDictOf fail with "invalid element".  Under 'single' the
\* collection decoders recover themselves: the failing elements are
\* dropped, and the call succeeds exactly when the survivors number at
\* least minSize.  A failing decoder wrapped by fallback counts as
\* succeeding.
C19_FailurePropagation ==
    /\ (Done("beObjectOf") /\ FailedSubCalls # {})
          => /\ ~outcome.ok
             /\ LET f == FirstRejectedField
                    r == Alone(f.dec, GetProp(input, f.key))
                IN  outcome.errName = r.errName /\ outcome.msg = r.msg
    /\ ((Done("beArrayOf") \/ Done("beDictOf"))
        /\ built.invalidate = "all" /\ FailedSubCalls # {})
          => /\ ~outcome.ok
             /\ outcome.errName = "TypeError"
             /\ outcome.msg = "invalid element"
    /\ (Done("beArrayOf") /\ IsArray(input) /\ built.invalidate = "single")
          => (outcome.ok <=>
                Cardinality(AcceptedAt(built.el, input.els)) >= built.minSize)
    /\ (Done("beDictOf") /\ isObject(input) /\ built.invalidate = "single")
          => (outcome.ok <=>
                Cardinality(AcceptedAt(built.el, input.vals)) >= built.minSize)
    /\ (pc = "done" /\ built.kind # "fallback" /\ FailedSubCalls # {}
        /\ outcome.ok)
          => (built.kind \in {"beArrayOf", "beDictOf"}
              /\ built.invalidate = "single")

\* C19 witness: beArrayOf under 'single', wrapped in no fallback, met an
\* element its decoder rejects and still succeeded
C19_Witness ==
    /\ Done("beArrayOf")
    /\ built.invalidate = "single"
    /\ built.el.kind # "fallback"
    /\ FailedSubCalls # {}
    /\ outcome.ok
    /\ Len(outcome.val.els) < Len(input.els)

\* every fallback value inside decoder d is one the decoder it stands in
\* for either rejects or returns unchanged
RECURSIVE StableFallbacks(_)
StableFallbacks(d) ==
    CASE d.kind = "fallback" ->
           /\ StableFallbacks(d.inner)
           /\ Accepts(d.inner, d.fb)
                => Structure(Alone(d.inner, d.fb).val) = Structure(d.fb)
      [] d.kind = "beObjectOf" ->
           \A i \in 1..Len(d.fields) : StableFallbacks(d.fields[i].dec)
      [] d.kind \in {"beArrayOf", "beDictOf"} -> StableFallbacks(d.el)
      [] OTHER -> TRUE

\* C16 as stated: whenever D(x) succeeds, D(D(x)) succeeds and equals
\* D(x), for every decoder D of the library.
C16_Idempotence ==
    pc = "redecoded"
        => /\ outcome2.ok
           /\ Structure(outcome2.val) = Structure(outcome.val)

\* C16, amended: whenever D(x) succeeds, D(D(x)) succeeds and equals D(x),
\* for every decoder D in which each fallback value is rejected or returned
\* unchanged by the decoder that fallback wraps.
C16_IdempotenceWithStableFallbacks ==
    (pc = "redecoded" /\ StableFallbacks(built))
        => /\ outcome2.ok
           /\ Structure(outcome2.val) = Structure(outcome.val)

\* C16 witness: beArrayOf over fallback('<NULL>')(beNumber) replaced a
\* string element, and decoding its result again gave an equal array in
\* another new container
C16_Witness ==
    /\ pc = "redecoded"
    /\ built.kind = "beArrayOf"
    /\ built.el.kind = "fallback"
    /\ StableFallbacks(built)
    /\ \E i \in 1..Len(input.els) : input.els[i].kind = "string"
    /\ \E i \in 1..Len(outcome.val.els) : outcome.val.els[i] = built.el.fb
    /\ Structure(outcome.val) # Structure(input)
    /\ outcome2.ok
    /\ Structure(outcome2.val) = Structure(outcome.val)
    /\ outcome2.val.ref # outcome.val.ref

\* the part of a log the second call added to what the first call left
Added(log2, log1) == SubSeq(log2, Len(log1) + 1, Len(log2))

RECURSIVE Containers(_)
Containers(v) ==
    (IF v.kind \in {"array", "object"} THEN {v} ELSE {})
    \cup UNION {Containers(v.els[i]) : i \in 1..Len(v.els)}
    \cup UNION {Containers(v.vals[i]) : i \in 1..Len(v.vals)}

\* the arrays and objects a decoder holds as fallback values
RECURSIVE ConfigContainers(_)
ConfigContainers(d) ==
    CASE d.kind = "fallback" ->
           Containers(d.fb) \cup ConfigContainers(d.inner)
      [] d.kind = "beObjectOf" ->
           UNION {ConfigContainers(d.fields[i].dec) : i \in 1..Len(d.fields)}
      [] d.kind \in {"beArrayOf", "beDictOf"} -> ConfigContainers(d.el)
      [] OTHER -> {}

\* the containers that exist when the first call starts
Given == Containers(input) \cup ConfigContainers(built)

\* C18: a call writes to no container it was given.  Every property write
\* of a call, successful or failing, goes to a container the call itself
\* allocated, never to one of the input or of the decoder's fallback
\* values; a container of the input or of the configuration that shows up
\* in the result has the content it had before; beObjectOf, beArrayOf and
\* beDictOf return a new container; and a second call leaves alone what
\* existed when it started, the first call's result included.
C18_InputAndConfigUntouched ==
    /\ pc # "init"
         => /\ \A k \in 1..Len(writes) :
                 /\ writes[k].ref >= FirstFree
                 /\ \A c \in Given : c.ref # writes[k].ref
            /\ \A c \in Containers(outcome.val), g \in Given :
                 c.ref = g.ref => c = g
            /\ (outcome.ok
                /\ built.kind \in {"beObjectOf", "beArrayOf", "beDictOf"})
                 => /\ outcome.val.ref >= FirstFree
                    /\ \A g \in Given : g.ref # outcome.val.ref
    /\ pc \in {"again", "redecoded"}
         => /\ \A k \in (Len(writes) + 1)..Len(outcome2.writes) :
                 outcome2.writes[k].ref >= next
            /\ \A c \in Containers(outcome2.val),
                  g \in Given \cup Containers(input2) :
                 c.ref = g.ref => c = g
            /\ (outcome2.ok
                /\ built.kind \in {"beObjectOf", "beArrayOf", "beDictOf"})
                 => outcome2.val.ref >= next

\* C18 witness: a beObjectOf call wrote its first field and then failed on
\* the second; the write went to the object the call had allocated
C18_Witness ==
    /\ Done("beObjectOf")
    /\ isObject(input)
    /\ ~outcome.ok
    /\ Len(writes) = 1
    /\ writes[1].ref = FirstFree
    /\ writes[1].prop = built.fields[1].key
    /\ HasKey(input, writes[1].prop)

\* C21: when the element decoder of beArrayOf is fallback(v)(d), no array
\* element is dropped, under either policy: a call on an array succeeds
\* unless the array is shorter than minSize, and its result is as long as
\* the input, holding v itself at each position whose element d rejects
\* and what d returns at every other position.
C21_FallbackElementKeepsLength ==
    (Done("beArrayOf") /\ IsArray(input) /\ built.el.kind = "fallback")
        => /\ outcome.ok <=> Len(input.els) >= built.minSize
           /\ outcome.ok
                => /\ Len(outcome.val.els) = Len(input.els)
                   /\ \A i \in 1..Len(input.els) :
                        IF Accepts(built.el.inner, input.els[i])
                        THEN Structure(outcome.val.els[i]) =
                               Structure(Alone(built.el.inner,
                                               input.els[i]).val)
                        ELSE outcome.val.els[i] = built.el.fb

\* C21 witness: under 'all', an array whose second element the inner
\* decoder rejects came back whole, with the fallback value second
C21_Witness ==
    /\ Done("beArrayOf")
    /\ built.el.kind = "fallback"
    /\ built.invalidate = "all"
    /\ IsArray(input)
    /\ Len(input.els) = 3
    /\ AcceptedAt(built.el.inner, input.els) = {1, 3}
    /\ outcome.ok
    /\ Len(outcome.val.els) = 3
    /\ outcome.val.els[2] = built.el.fb
    /\ outcome.val.els[1] = input.els[1]

\* the four observable fields of a call's result
Observed(r) ==
    [ok |-> r.ok, val |-> r.val, errName |-> r.errName, msg |-> r.msg]

\* C22: or is fallback under another name: a decoder built with or(f)(d)
\* is the decoder fallback(f)(d), for a fallback value f and a decoder d
\* handed in, and calling it on x does what fallback(f)(d)(x) does (the
\* same value, or f itself).
C22_OrIsFallback ==
    (pc # "init" /\ called = "or")
        => \E f \in FallbackVals, d \in InnerDecoders :
              /\ built = fallback(f, d)
              /\ outcome = Observed(Alone(fallback(f, d), input))
              /\ Accepts(d, input) \/ outcome.val = f

\* C22 witness: or('<NULL>')(beNumber) was called on a string and returned
\* '<NULL>'
C22_Witness ==
    /\ pc = "done"
    /\ called = "or"
    /\ built.fb = Str("<NULL>")
    /\ built.inner = beNumber
    /\ input.kind = "string"
    /\ outcome.ok
    /\ outcome.val = Str("<NULL>")

\* C23: no decoder returns a value that failed its check.  What be(p)
\* returns satisfies p; each element of a beArrayOf(be(p)) result and each
\* value of a beDictOf(be(p)) result satisfies p; and beObject, beObjectOf
\* and beDictOf return only when the input is a plain object.
C23_NoUncheckedValue ==
    /\ (Done("be") /\ outcome.ok)
          => ApplyPredicate(built.pred, outcome.val)
    /\ (Done("beArrayOf") /\ built.el.kind = "be" /\ outcome.ok)
          => \A i \in 1..Len(outcome.val.els) :
               ApplyPredicate(built.el.pred, outcome.val.els[i])
    /\ (Done("beDictOf") /\ built.el.kind = "be" /\ outcome.ok)
          => \A i \in 1..Len(outcome.val.vals) :
               ApplyPredicate(built.el.pred, outcome.val.vals[i])
    /\ (pc = "done" /\ outcome.ok
        /\ (called \in {"beObject", "beObjectOf", "beDictOf"}))
          => input.kind = "object"

\* C23 witness: beArrayOf(beNumber) was given strings and numbers mixed,
\* and returned the numbers only
C23_Witness ==
    /\ Done("beArrayOf")
    /\ built.el = beNumber
    /\ \E i \in 1..Len(input.els) : input.els[i].kind = "string"
    /\ \E i \in 1..Len(input.els) : input.els[i].kind = "number"
    /\ outcome.ok
    /\ Len(outcome.val.els) >= 1
    /\ \A i \in 1..Len(outcome.val.els) : outcome.val.els[i].kind = "number"

\* the direct sub-decoder calls decoder d makes on x when nothing stops it
SubCallsOf(d, x) ==
    CASE d.kind = "beObjectOf" /\ isObject(x) ->
           {[d |-> d.fields[i].dec, x |-> GetProp(x, d.fields[i].key)] :
              i \in 1..Len(d.fields)}
      [] d.kind = "beArrayOf" /\ IsArray(x) ->
           {[d |-> d.el, x |-> x.els[i]] : i \in 1..Len(x.els)}
      [] d.kind = "beDictOf" /\ isObject(x) ->
           {[d |-> d.el, x |-> x.vals[i]] : i \in 1..Len(x.vals)}
      [] OTHER -> {}

\* a sub-decoder of d fails on its part of x
FailsInside(d, x) == \E c \in SubCallsOf(d, x) : ~Accepts(c.d, c.x)

\* the declared fields of the beObjectOf call made, with the input's value
\* at each
FieldCalls ==
    [i \in 1..Len(built.fields) |->
        [key |-> built.fields[i].key, d |-> built.fields[i].dec,
         x |-> GetProp(input, built.fields[i].key)]]

\* C24 as stated: in a nested composition only a fallback absorbs a
\* failure; when a sub-decoder of a field's decoder fails and no fallback
\* encloses it, the failure reaches the caller of beObjectOf.
C24_OnlyNearestFallbackAbsorbs ==
    (Done("beObjectOf") /\ isObject(input)
     /\ \E i \in 1..Len(built.fields) :
          /\ FieldCalls[i].d.kind # "fallback"
          /\ FailsInside(FieldCalls[i].d, FieldCalls[i].x))
        => ~outcome.ok

\* C24, amended: in a nested composition a failure is absorbed by the
\* nearest enclosing fallback, or before that by an enclosing beArrayOf or
\* beDictOf under 'single', which drops the failing element.  A field (or
\* element) whose decoder is fallback(v)(d), d a nested object or
\* collection decoder that fails, holds v itself in place of the whole
\* subtree, and its siblings hold their own decoded values; a field whose
\* decoder fails with no fallback around it makes the top-level call fail;
\* a field decoded by a collection decoder under 'single' keeps the
\* survivors of its elements.
C24_NearestAbsorberOnly ==
    /\ (Done("beObjectOf") /\ isObject(input))
          => /\ outcome.ok
                  <=> \A i \in 1..Len(built.fields) :
                        Accepts(FieldCalls[i].d, FieldCalls[i].x)
             /\ outcome.ok
                  => \A i \in 1..Len(built.fields) :
                       LET f == FieldCalls[i]
                           v == GetProp(outcome.val, f.key)
                       IN  /\ (f.d.kind = "fallback"
                               /\ ~Accepts(f.d.inner, f.x))
                                => v = f.d.fb
                           /\ (f.d.kind # "fallback"
                               \/ Accepts(f.d.inner, f.x))
                                => Structure(v) = Structure(Alone(f.d, f.x).val)
                           /\ (f.d.kind \in {"beArrayOf", "beDictOf"}
                               /\ FailsInside(f.d, f.x))
                                => /\ f.d.invalidate = "single"
                                   /\ Len(v.els) + Len(v.vals)
                                        < Len(f.x.els) + Len(f.x.vals)
    /\ (Done("beArrayOf") /\ IsArray(input) /\ built.el.kind = "fallback"
        /\ outcome.ok)
          => \A i \in 1..Len(input.els) :
               IF Accepts(built.el.inner, input.els[i])
               THEN Structure(outcome.val.els[i]) =
                      Structure(Alone(built.el.inner, input.els[i]).val)
               ELSE outcome.val.els[i] = built.el.fb

\* C24 witness: hobby, decoded by fallback('<NULL>') around beArrayOf
\* under 'all', held an array with one element that is no string; the
\* result has '<NULL>' for the whole hobby and the decoded name beside it
C24_Witness ==
    /\ Done("beObjectOf")
    /\ Len(built.fields) = 2
    /\ built.fields[1].key = "hobby"
    /\ built.fields[1].dec.kind = "fallback"
    /\ built.fields[1].dec.inner.kind = "beArrayOf"
    /\ built.fields[1].dec.inner.invalidate = "all"
    /\ IsArray(GetProp(input, "hobby"))
    /\ FailsInside(built.fields[1].dec.inner, GetProp(input, "hobby"))
    /\ outcome.ok
    /\ GetProp(outcome.val, "hobby") = Str("<NULL>")
    /\ GetProp(outcome.val, "name") = Str("Tony")

\* the log of a beObjectOf call that takes the given [key, dec] pairs from
\* the i-th on in order, hands each decoder the input's value at its key,
\* and stops after the first decoder that fails; each entry is followed by
\* the calls that decoder made itself
RECURSIVE LogInOrder(_, _)
LogInOrder(fields, i) ==
    IF i > Len(fields) THEN <<>>
    ELSE LET x == GetProp(input, fields[i].key)
         IN  <<[d |-> fields[i].dec, x |-> x]>>
             \o Alone(fields[i].dec, x).calls
             \o (IF Accepts(fields[i].dec, x)
                 THEN LogInOrder(fields, i + 1) ELSE <<>>)

\* the positions of the given pairs before the first one whose decoder
\* fails, that one included
Reached(fields) ==
    {i \in 1..Len(fields) :
        \A j \in 1..(i - 1) :
            Accepts(fields[j].dec, GetProp(input, fields[j].key))}

\* the writes of the call into its own new object
OwnWrites == {k \in 1..Len(writes) : writes[k].ref = FirstFree}

\* C25 as stated: a beObjectOf call on an object invokes the field decoders
\* in declaration order, each at most once and each on the input's value at
\* its key; after the first field decoder that fails, no decoder of a field
\* declared later is invoked.
C25_FieldsInDeclarationOrder ==
    (Done("beObjectOf") /\ isObject(input))
        => calls = LogInOrder(built.fields, 1)

\* C25, amended: a beObjectOf call on an object invokes the field decoders
\* in Object.keys order of the field-decoder record: declaration order,
\* except that names that are array indices come first, in ascending order.
\* Each decoder is invoked at most once, on the input's value at its key
\* (undefined when the input lacks the key); after the first decoder that
\* fails no decoder later in that order is invoked, and the call ends at
\* once with that decoder's failure, having written into its new object the
\* fields before it only.
C25_FieldsInKeysOrder ==
    (Done("beObjectOf") /\ isObject(input))
        => LET fields == ObjectKeys(built.fields)
           IN  /\ calls = LogInOrder(fields, 1)
               /\ \A i \in 1..Len(fields) :
                    ~HasKey(input, fields[i].key)
                      => GetProp(input, fields[i].key) = Undefined
               /\ (\A i \in 1..Len(fields) : ~IsIndexKey(fields[i].key))
                    => fields = built.fields
               /\ (Reached(fields) # 1..Len(fields))
                    => /\ ~outcome.ok
                       /\ Cardinality(OwnWrites)
                            = Cardinality(Reached(fields)) - 1

\* C25 witness: name was declared before the index name 1, the decoder of
\* 1 was invoked first, on the input's value at 1, and failed; the decoder
\* of name was not invoked
C25_Witness ==
    /\ Done("beObjectOf")
    /\ isObject(input)
    /\ Len(built.fields) = 2
    /\ built.fields[1].key = "name"
    /\ built.fields[2].key = "1"
    /\ HasKey(input, "1")
    /\ HasKey(input, "name")
    /\ calls = <<[d |-> built.fields[2].dec, x |-> GetProp(input, "1")]>>
    /\ ~outcome.ok

\* the log of a collection call that takes the elements xs from the i-th
\* on in order and hands each to the element decoder once, stopping after
\* the first one it rejects when the policy is 'all'; each entry is
\* followed by the calls the element decoder made itself
RECURSIVE ElementsInOrder(_, _)
ElementsInOrder(xs, i) ==
    IF i > Len(xs) THEN <<>>
    ELSE <<[d |-> built.el, x |-> xs[i]]>>
         \o Alone(built.el, xs[i]).calls
         \o (IF Accepts(built.el, xs[i]) \/ built.invalidate = "single"
             THEN ElementsInOrder(xs, i + 1) ELSE <<>>)

\* the elements a collection call was given: of an array, or the values
\* of an object at its own keys
ElementsOf(x) == IF IsArray(x) THEN x.els ELSE x.vals

\* C26: a beArrayOf or beDictOf call on an array or object ends, with a
\* value or a failure, after handing the element decoder each element at
\* most once, in input order.  Under 'single' every element is handed over
\* exactly once; under 'all' none is after the first one the decoder
\* rejects, and the call then fails with the TypeError "invalid element",
\* whatever error the element decoder raised.
C26_OneCallPerElement ==
    ((Done("beArrayOf") /\ IsArray(input))
     \/ (Done("beDictOf") /\ isObject(input)))
        => LET xs == ElementsOf(input)
               firstBad == {i \in 1..Len(xs) :
                              /\ ~Accepts(built.el, xs[i])
                              /\ \A j \in 1..(i - 1) :
                                   Accepts(built.el, xs[j])}
           IN  /\ outcome.ok \/ outcome.errName = "TypeError"
               /\ calls = ElementsInOrder(xs, 1)
               /\ built.el.kind \in {"be", "raise", "identity"}
                    => /\ Len(calls) <= Len(xs)
                       /\ built.invalidate = "single" => Len(calls) = Len(xs)
                       /\ \A i \in firstBad :
                            built.invalidate = "all" => Len(calls) = i
               /\ (built.invalidate = "all" /\ firstBad # {})
                    => /\ ~outcome.ok
                       /\ outcome.errName = "TypeError"
                       /\ outcome.msg = "invalid element"

\* C26 witness: under 'all' the element decoder raised a RangeError of its
\* own on the first of three elements; it was not handed the other two,
\* and the call failed with the TypeError "invalid element"
C26_Witness ==
    /\ Done("beArrayOf")
    /\ built.invalidate = "all"
    /\ built.el = raisingDecoder("RangeError")
    /\ IsArray(input)
    /\ Len(input.els) = 3
    /\ calls = <<[d |-> built.el, x |-> input.els[1]]>>
    /\ ~outcome.ok
    /\ outcome.errName = "TypeError"
    /\ outcome.msg = "invalid element"

\* C27: the shape check comes first.  A beArrayOf call on an input that is
\* no array, and a beObjectOf or beDictOf call on an input that is no plain
\* object, fails before any element or field decoder is invoked, before
\* anything is allocated or written, and with one and the same failure
\* whatever invalidate and minSize are.
C27_ShapeCheckFirst ==
    /\ (Done("beArrayOf") /\ input.kind # "array")
          => /\ calls = <<>> /\ writes = <<>> /\ next = FirstFree
             /\ outcome = Observed(Throw("TypeError", "Not an array", M0))
             /\ \A o \in OptionsSet :
                  outcome = Observed(Alone(beArrayOf(built.el, o), input))
    /\ (Done("beDictOf") /\ input.kind # "object")
          => /\ calls = <<>> /\ writes = <<>> /\ next = FirstFree
             /\ outcome = Observed(Throw("TypeError", "Not an object", M0))
             /\ \A o \in OptionsSet :
                  outcome = Observed(Alone(beDictOf(built.el, o), input))
    /\ (Done("beObjectOf") /\ input.kind # "object")
          => /\ calls = <<>> /\ writes = <<>> /\ next = FirstFree
             /\ outcome = Observed(Throw("TypeError", "Not an object", M0))

\* C27 witness: beDictOf under 'all' with minSize 2 was given an array
\* whose named properties its element decoder would accept; it failed with
\* "Not an object" and the element decoder was not invoked
C27_Witness ==
    /\ Done("beDictOf")
    /\ built.invalidate = "all"
    /\ built.minSize = 2
    /\ input.kind = "array"
    /\ Len(input.vals) = 2
    /\ \A i \in 1..Len(input.vals) : Accepts(built.el, input.vals[i])
    /\ calls = <<>>
    /\ ~outcome.ok
    /\ outcome.msg = "Not an object"

\* C28: a collection decode that succeeds returns nothing the input lacks
\* and at least minSize elements.  A beArrayOf result is an array no longer
\* than the input; a beDictOf result has only keys that are own keys of the
\* input; either holds at least minSize elements; and under 'all' nothing
\* is dropped: the array is as long as the input, the dictionary has the
\* input's keys exactly.
C28_ResultSizeBounds ==
    /\ (Done("beArrayOf") /\ outcome.ok)
          => /\ outcome.val.kind = "array"
             /\ Len(outcome.val.els) <= Len(input.els)
             /\ Len(outcome.val.els) >= built.minSize
             /\ outcome.val.keys = <<>>
             /\ built.invalidate = "all"
                  => Len(outcome.val.els) = Len(input.els)
    /\ (Done("beDictOf") /\ outcome.ok)
          => /\ outcome.val.kind = "object"
             /\ KeySet(outcome.val) \subseteq KeySet(input)
             /\ Cardinality(KeySet(outcome.val)) = Len(outcome.val.keys)
             /\ Len(outcome.val.keys) >= built.minSize
             /\ built.invalidate = "all"
                  => KeySet(outcome.val) = KeySet(input)

\* C28 witness: beDictOf under 'single' with minSize 2 dropped one of three
\* values and returned the other two
C28_Witness ==
    /\ Done("beDictOf")
    /\ built.invalidate = "single"
    /\ built.minSize = 2
    /\ Len(input.keys) = 3
    /\ outcome.ok
    /\ Len(outcome.val.keys) = 2
    /\ KeySet(outcome.val) \subseteq KeySet(input)

\* a call of the earlier API has returned or failed
DoneEarlier(kind) == pc = "decoded" /\ built.kind = kind

\* the error a failed call ended with
ErrorOf(r) == [errName |-> r.errName, msg |-> r.msg]

RejectedElements ==
    {i \in 1..Len(input.els) : ~Accepts(built.dec, input.els[i])}

\* the three causes that invalidate the array of a decodeArray call
NotAnArrayCause == ~IsArray(input)

ElementCause ==
    /\ IsArray(input)
    /\ ElementOf(built.options) = "all"
    /\ RejectedElements # {}

MinLengthCause ==
    /\ IsArray(input)
    /\ ~ElementCause
    /\ Len(input.els) - Cardinality(RejectedElements)
         < MinLengthOf(built.options)

\* the error of the first element the element decoder rejects
FirstElementError ==
    LET i == CHOOSE k \in RejectedElements :
                 \A j \in RejectedElements : k <= j
    IN  ErrorOf(Alone(built.dec, input.els[i]))

\* what a decodeArray call does whatever the messages: under array:
\* 'fallback' it returns the fallback for each cause and never fails; under
\* array: 'throw' it fails for each cause, with the element decoder's own
\* error for an element failure; without a cause it returns the elements
\* the element decoder accepted
ArrayPolicyRules ==
    LET o       == built.options
        invalid == NotAnArrayCause \/ ElementCause \/ MinLengthCause
    IN  /\ ArrayOf(o) \in {"fallback", "throw"}
        /\ (~o.given \/ ~o.hasInvalidate \/ o.array = "")
             => ArrayOf(o) = "fallback"
        /\ ArrayOf(o) = "fallback" => outcome.ok
        /\ (ArrayOf(o) = "fallback" /\ invalid)
             => outcome.val = built.fallbackVal
        /\ (ArrayOf(o) = "throw" /\ invalid) => ~outcome.ok
        /\ (ArrayOf(o) = "throw" /\ ElementCause)
             => ErrorOf(outcome) = FirstElementError
        /\ ~invalid
             => /\ outcome.ok
                /\ IsArray(outcome.val)
                /\ outcome.val.ref = FirstFree
                /\ Len(outcome.val.els)
                     = Len(input.els) - Cardinality(RejectedElements)

\* C30 as stated: in decodeArray the three invalidation causes (input not
\* an array, an element failure under element: 'all', fewer survivors than
\* minLength) all go through the array policy: with array: 'fallback', the
\* default, decodeArray never throws and returns the fallback for each of
\* them; with array: 'throw' it throws, the element decoder's own error for
\* an element failure, and an error with the caller's minLengthError or
\* notAnArrayError message whenever one is given.
C30_CallerMessageWheneverGiven ==
    DoneEarlier("decodeArray")
        => LET o == built.options
           IN  /\ ArrayPolicyRules
               /\ (ArrayOf(o) = "throw" /\ NotAnArrayCause
                     /\ o.hasNotAnArrayError)
                    => outcome.msg = o.notAnArrayError
               /\ (ArrayOf(o) = "throw" /\ MinLengthCause
                     /\ o.hasMinLengthError)
                    => outcome.msg = o.minLengthError

\* C30, amended: as stated, except that under array: 'throw' the caller's
\* minLengthError or notAnArrayError is the message only when it is given
\* and not the empty string; otherwise the message is the default one:
\* '<the input, printed> is not an array' (a TypeError), or 'Array length
\* (<survivors>) less than specified (<minLength>)' (an Error).
C30_CallerMessageWhenNotEmpty ==
    DoneEarlier("decodeArray")
        => LET o == built.options
               survivors == Len(input.els) - Cardinality(RejectedElements)
           IN  /\ ArrayPolicyRules
               /\ (ArrayOf(o) = "throw" /\ NotAnArrayCause)
                    => /\ outcome.errName = "TypeError"
                       /\ outcome.msg =
                            IF o.given /\ o.hasNotAnArrayError
                               /\ o.notAnArrayError # ""
                            THEN o.notAnArrayError
                            ELSE printValueInfo(input) \o " is not an array"
               /\ (ArrayOf(o) = "throw" /\ MinLengthCause)
                    => /\ outcome.errName = "Error"
                       /\ outcome.msg =
                            IF o.given /\ o.hasMinLengthError
                               /\ o.minLengthError # ""
                            THEN o.minLengthError
                            ELSE "Array length (" \o NatToString(survivors)
                                 \o ") less than specified ("
                                 \o NatToString(MinLengthOf(o)) \o ")"

\* C30 witness: under array: 'throw' and element: 'single' the rejected
\* elements were dropped, fewer elements than minLength were left, and the
\* call failed with the caller's 'Way too short!'
C30_Witness ==
    /\ DoneEarlier("decodeArray")
    /\ ArrayOf(built.options) = "throw"
    /\ ElementOf(built.options) = "single"
    /\ MinLengthCause
    /\ RejectedElements # {}
    /\ Cardinality(RejectedElements) < Len(input.els)
    /\ built.options.hasMinLengthError
    /\ ~outcome.ok
    /\ ErrorOf(outcome) = [errName |-> "Error", msg |-> "Way too short!"]


=============================================================================
